---- MODULE Spec2Model ----
(***************************************************************************)
(* Model of the screen-recording batch of utils/record.ts:                 *)
(*   listResourceBusinessDirs, recordOneBusinessFolder and                 *)
(*   recordAllBusinessesFromResources.                                     *)
(* A folder name is a sequence of characters; a path is a sequence of      *)
(* segments, each segment a sequence of characters (a fixed file name such *)
(* as index.html is a one-element segment).                                *)
(***************************************************************************)
EXTENDS Integers, Sequences, FiniteSets, TLC

VARIABLES
    listing,      \* readdir(RESOURCES_ROOT): set of [name, dir] entries
    site,         \* the document index.html serves: [regions, nav]
    pc,           \* position of recordAllBusinessesFromResources
    folders,      \* const folders (result of listResourceBusinessDirs)
    idx,          \* index of the for-of loop over folders (1-based)
    failures,     \* const failures: sequence of [folder, error]
    exitCode,     \* process.exitCode (0 while unset)
    log,          \* console.log / console.error lines: <<kind, folder>>
    attempted,    \* folders recordOneBusinessFolder was called with, in order
    spc,          \* position of recordOneBusinessFolder
    err,          \* exception in flight in recordOneBusinessFolder
    started,      \* let started
    currentX,     \* let currentX
    currentY,     \* let currentY
    calls,        \* browser / page / recorder / fs calls of this session
    swallowed,    \* the steps of this session whose exception was caught and
                  \* ignored, when the session is traced
    pageGone,     \* the page is closed (page.isClosed() answers true)
    fs,           \* files and directories written by the run
    region,       \* index of the current section of `sections`
    nSections,    \* sections.length
    elementData,  \* const elementData (after the sort)
    limitedElements, \* const limitedElements
    hoverIdx,     \* index of the for-of loop over limitedElements
    hovered,      \* targets the hover loop of this region entered its try for
    navLinks,     \* navLinks: selector, length, position of the link clicked
    motion,       \* the animation in flight: [steps, from, to], or
                  \* [kind, steps, to, at] when the cursor is followed
    tick,         \* let i of the animation loop
    trace,        \* the ticks issued: [progress, eased, at], or, when the
                  \* cursor is followed, the last pointer move the page
                  \* carried out and the call of the overlay that
                  \* followed it: [call, at, ok]
    toolInput,    \* a tool call: its arguments and what the API answers
    toolOutput,   \* what the tool handler returns, and the request it sent
    templatesDir, \* data/website_templates/: set of [name, dir] entries
    cachedWebsiteTemplateFilenames,  \* <<>> (null) or <<array>>
    listCalls,    \* the calls of listWebsiteTemplateFilenames, in call order
    apc,          \* position of assignTemplateNamesToCurrentPitchList
    doc,          \* the parsed current_pitch_list.json
    templateFilenames,  \* what listWebsiteTemplateFilenames returned
    idToTemplate, \* Map pitch_id -> template_name
    llmResult,    \* the latest answer of gptCall5
    effects,      \* prompts sent and files written, in order
    usedResourceDirs,  \* const usedResourceDirs = new Set<string>()
    cachedWebsiteTemplateHtmlByFilename,  \* the filenames the Map has
    resources,    \* mkdir and writeFile under data/staging/resources/, in
                  \* order: [op, dir, pitch_id]
    gpt           \* a call of gptCall5: its arguments, its position, its
                  \* timers, the requests made, the delays waited, its result

vars == <<listing, site, pc, folders, idx, failures, exitCode, log, attempted,
          spc, err, started, currentX, currentY, calls, swallowed, pageGone,
          fs,
          region, nSections, elementData, limitedElements, hoverIdx, hovered,
          navLinks, motion, tick, trace, toolInput, toolOutput, templatesDir,
          cachedWebsiteTemplateFilenames, listCalls, apc, doc,
          templateFilenames, idToTemplate, llmResult, effects,
          usedResourceDirs, cachedWebsiteTemplateHtmlByFilename, resources,
          gpt>>

batchVars == <<pc, folders, idx, failures, exitCode, log, attempted>>
planVars == <<region, nSections, elementData, limitedElements, hoverIdx,
              hovered, navLinks>>
inputVars == <<listing, site>>
motionVars == <<motion, tick, trace>>
toolVars == <<toolInput, toolOutput>>
cacheVars == <<cachedWebsiteTemplateFilenames, listCalls>>
materialVars ==
    <<usedResourceDirs, cachedWebsiteTemplateHtmlByFilename, resources>>
assignVars == <<apc, doc, templateFilenames, idToTemplate, llmResult, effects,
                materialVars, gpt>>
auxVars == <<motionVars, toolVars, templatesDir, cacheVars, assignVars>>

(***************************************************************************)
(* Bounds of the model.                                                    *)
(***************************************************************************)
MaxEntries == 3
MaxCandidates == 6
MaxFiltered == 3
MaxSteps == 50
MaxResults == 2
MaxCalls == 4
MaxPitches == 2

(***************************************************************************)
(* Characters of folder names.  CodeUnit is the UTF-16 code unit;          *)
(* CollationRank is the relative order of the characters in the root       *)
(* collation String.prototype.localeCompare uses (punctuation before       *)
(* digits before letters).                                                 *)
(***************************************************************************)
Chars == {"a", "1", "_", ".", "#"}

CodeUnit(c) ==
    CASE c = "#" -> 35
      [] c = "." -> 46
      [] c = "1" -> 49
      [] c = "_" -> 95
      [] c = "a" -> 97
      [] OTHER -> 0

CollationRank(c) ==
    CASE c = "_" -> 1
      [] c = "." -> 2
      [] c = "#" -> 3
      [] c = "1" -> 4
      [] c = "a" -> 5
      [] OTHER -> 0

\* The names a directory entry may have: plain names that the two orders
\* rank differently ("_" against a digit or a letter), hidden names, and names
\* with a character that is a delimiter in a URL.
Names ==
    { <<"a">>, <<"a", "1">>, <<"a", "_">>, <<".", "a">>, <<"a", "#">> }

DirEntries == [name : Names, dir : BOOLEAN]

\* Directory listings: entries of one directory have distinct names.
RECURSIVE ListingsUpTo(_)
ListingsUpTo(n) ==
    IF n = 0 THEN {{}}
    ELSE LET smaller == ListingsUpTo(n - 1)
         IN  smaller \cup
             {L \cup {e} : L \in smaller,
                           e \in {d \in DirEntries : TRUE}}

Listings ==
    {L \in ListingsUpTo(MaxEntries) :
        \A e1, e2 \in L : e1.name = e2.name => e1 = e2}

(***************************************************************************)
(* a.localeCompare(b): -1, 0 or 1.  Every character of Chars has a primary *)
(* weight of its own, so the comparison is decided at the first differing  *)
(* position, a proper prefix sorting first.                                *)
(***************************************************************************)
RECURSIVE localeCompare(_, _)
localeCompare(a, b) ==
    IF a = <<>> /\ b = <<>> THEN 0
    ELSE IF a = <<>> THEN -1
    ELSE IF b = <<>> THEN 1
    ELSE IF CollationRank(Head(a)) < CollationRank(Head(b)) THEN -1
    ELSE IF CollationRank(Head(a)) > CollationRank(Head(b)) THEN 1
    ELSE localeCompare(Tail(a), Tail(b))

\* Code-unit (lexicographic) comparison of two names, as < on strings.
RECURSIVE CodeUnitLess(_, _)
CodeUnitLess(a, b) ==
    IF b = <<>> THEN FALSE
    ELSE IF a = <<>> THEN TRUE
    ELSE IF CodeUnit(Head(a)) < CodeUnit(Head(b)) THEN TRUE
    ELSE IF CodeUnit(Head(a)) > CodeUnit(Head(b)) THEN FALSE
    ELSE CodeUnitLess(Tail(a), Tail(b))

startsWithDot(n) == n # <<>> /\ Head(n) = "."

\* The two filters of listResourceBusinessDirs on one entry.
IsListedNoHiddenCheck(e) == e.dir
IsListed(e) == e.dir /\ ~startsWithDot(e.name)

\* .sort((a, b) => a.localeCompare(b)) on distinct names.
RECURSIVE SortNames(_)
SortNames(S) ==
    IF S = {} THEN <<>>
    ELSE LET m == CHOOSE x \in S : \A y \in S : localeCompare(x, y) <= 0
         IN  <<m>> \o SortNames(S \ {m})

listResourceBusinessDirs(entries) ==
    SortNames({e.name : e \in {e \in entries : IsListed(e)}})


(***************************************************************************)
(* URLs.  A URL is its path (a sequence of segments) and whether the path  *)
(* ends with "/".  new URL(rel, base) resolves rel against the directory   *)
(* of base; a "#" in rel starts the fragment, which is no part of the      *)
(* path.  A folder name holds no "/" and no "?".                           *)
(***************************************************************************)
RESOURCES_ROOT == [path |-> << <<"resources">> >>, slash |-> TRUE]
PROFILE_ROOT == [path |-> << <<".puppeteer_profile">> >>, slash |-> TRUE]

RECURSIVE BeforeHash(_)
BeforeHash(rel) ==
    IF rel = <<>> \/ Head(rel) = "#" THEN <<>>
    ELSE <<Head(rel)>> \o BeforeHash(Tail(rel))

Front(s) == SubSeq(s, 1, Len(s) - 1)

newURL(rel, base) ==
    LET p == BeforeHash(rel)
        baseDir == IF base.slash THEN base.path ELSE Front(base.path)
    IN  IF p = <<>> THEN base
        ELSE IF p[Len(p)] = "/"
        THEN [path |-> Append(baseDir, Front(p)), slash |-> TRUE]
        ELSE [path |-> Append(baseDir, p), slash |-> FALSE]

fileURLToPath(url) == url.path
href(url) == url.path

businessDirUrl(folderName) == newURL(Append(folderName, "/"), RESOURCES_ROOT)
indexUrl(folderName) == newURL(<<"index.html">>, businessDirUrl(folderName))
recordingUrl(folderName) == newURL(<<"recording.mp4">>, businessDirUrl(folderName))
recordingPath(folderName) == fileURLToPath(recordingUrl(folderName))
userDataDirUrl(folderName) == newURL(Append(folderName, "/"), PROFILE_ROOT)
metaUrl(folderName) == newURL(<<"recording.json">>, businessDirUrl(folderName))

\* The object JSON.stringify serialises into recording.json.
metaRecord(folderName) ==
    [business_folder |-> folderName,
     index_html |-> href(indexUrl(folderName)),
     recording |-> href(recordingUrl(folderName))]

NoMeta == [business_folder |-> <<>>, index_html |-> <<>>, recording |-> <<>>]

Dir(url) == [path |-> url.path, kind |-> "dir", meta |-> NoMeta]
Video(path) == [path |-> path, kind |-> "video", meta |-> NoMeta]
Json(url, m) == [path |-> url.path, kind |-> "json", meta |-> m]


(***************************************************************************)
(* The interaction planner (the body of the per-section try block).        *)
(* A candidate element of a section carries what the page answers for it:  *)
(* its bounding box (hasBox FALSE: boundingBox() answers null), its        *)
(* computed style, the size of its getBoundingClientRect() (rect), and     *)
(* fault: the call on it that throws (a detached node), "none" when no     *)
(* call throws.                                                            *)
(***************************************************************************)
Abs(n) == IF n < 0 THEN -n ELSE n

isVisible(node) ==
    /\ node.display # "none"
    /\ node.visibility # "hidden"
    /\ node.opacity # "0"
    /\ node.rect.width > 0
    /\ node.rect.height > 0

\* Lines 186-203 for one element: TRUE when it is pushed to elementData.
passesFiltersNoVisibility(node) ==
    /\ node.fault # "boundingBox"
    /\ ~(~node.hasBox \/ node.box.width < 10 \/ node.box.height < 10)
    /\ node.fault # "evaluate"

passesFilters(node) ==
    /\ node.fault # "boundingBox"
    /\ ~(~node.hasBox \/ node.box.width < 10 \/ node.box.height < 10)
    /\ node.fault # "evaluate"
    /\ isVisible(node)

\* The for loop of lines 185-207 without the try block of lines 186-206: the
\* exception of an element ends the loop and the planning of the section.
RECURSIVE collectUntilFault(_, _)
collectUntilFault(elements, k) ==
    IF k > Len(elements) \/ elements[k].fault # "none" THEN <<>>
    ELSE (IF passesFilters(elements[k])
          THEN << [el |-> k, box |-> elements[k].box] >>
          ELSE <<>>) \o collectUntilFault(elements, k + 1)

\* The for loop of lines 185-207: the targets {el, box} pushed, in DOM order;
\* el is the position of the element in `elements`.
RECURSIVE collectFrom(_, _)
collectFrom(elements, k) ==
    IF k > Len(elements) THEN <<>>
    ELSE (IF passesFilters(elements[k])
          THEN << [el |-> k, box |-> elements[k].box] >>
          ELSE <<>>) \o collectFrom(elements, k + 1)

collectElementData(elements) == collectFrom(elements, 1)

\* The comparator of lines 210-214.
compareTargetsByYOnly(a, b) == a.box.y - b.box.y

compareTargets(a, b) ==
    LET yDiff == a.box.y - b.box.y
    IN  IF Abs(yDiff) > 40 THEN yDiff ELSE a.box.x - b.box.x

\* Whether the comparator is a consistent comparator on the elements of s
\* (ECMAScript, Array.prototype.sort): its "less" and "equal" are transitive.
consistentOn(s) ==
    \A i, j, k \in 1..Len(s) :
        /\ (compareTargets(s[i], s[j]) < 0 /\ compareTargets(s[j], s[k]) < 0)
              => compareTargets(s[i], s[k]) < 0
        /\ (compareTargets(s[i], s[j]) = 0 /\ compareTargets(s[j], s[k]) = 0)
              => compareTargets(s[i], s[k]) = 0

RECURSIVE insertSorted(_, _)
insertSorted(s, x) ==
    IF s = <<>> THEN <<x>>
    ELSE IF compareTargets(x, Head(s)) < 0 THEN <<x>> \o s
    ELSE <<Head(s)>> \o insertSorted(Tail(s), x)

RECURSIVE stableSort(_)
stableSort(s) ==
    IF s = <<>> THEN <<>>
    ELSE insertSorted(stableSort(Front(s)), s[Len(s)])

rearrangements(s) ==
    {[i \in 1..Len(s) |-> s[p[i]]] : p \in Permutations(1..Len(s))}

\* elementData.sort(comparator): the stable sorted order when the comparator
\* is consistent on the elements; otherwise the order is implementation-
\* defined, any rearrangement of the elements.
sortOutcomes(s) ==
    IF consistentOn(s) THEN {stableSort(s)} ELSE rearrangements(s)

\* elementData.slice(0, 5)
sliceSix(s) == SubSeq(s, 1, IF Len(s) < 6 THEN Len(s) ELSE 6)
slice(s) == SubSeq(s, 1, IF Len(s) < 5 THEN Len(s) ELSE 5)

centerX(box) == box.x + box.width \div 2
centerY(box) == box.y + box.height \div 2


(***************************************************************************)
(* Inputs: the documents index.html may serve.                             *)
(***************************************************************************)
Cand(x, y, w, h) ==
    [box |-> [x |-> x, y |-> y, width |-> w, height |-> h], hasBox |-> TRUE,
     fault |-> "none", display |-> "block", visibility |-> "visible",
     opacity |-> "1", rect |-> [width |-> w, height |-> h]]

\* Candidate elements in DOM order: three whose rows chain (0, 30, 60), a row
\* at 200 with an element exactly 40 px below it, a row at 300, an element
\* 8 px wide and one with display: none.
PoolSeq ==
    << Cand(100, 0, 20, 20), Cand(50, 30, 20, 20), Cand(0, 60, 20, 20),
       Cand(40, 200, 20, 20), Cand(0, 200, 20, 20), Cand(20, 240, 20, 20),
       Cand(0, 300, 20, 20), Cand(0, 400, 8, 20),
       [Cand(0, 420, 20, 20) EXCEPT !.display = "none"] >>

RECURSIVE pick(_, _)
pick(I, k) ==
    IF k > Len(PoolSeq) THEN <<>>
    ELSE (IF k \in I THEN <<PoolSeq[k]>> ELSE <<>>) \o pick(I, k + 1)

\* The element lists of a section: the sub-lists of PoolSeq of bounded length.
ElementLists ==
    {pick(I, 1) : I \in {J \in SUBSET (1..Len(PoolSeq)) :
                             Cardinality(J) <= MaxCandidates}}

\* Candidates for the filters of lines 188 and 190-202, one per way of
\* failing them (the two calls that may throw on a detached node included)
\* and two that pass (20 by 20, and exactly 10 by 10), each in a row of its
\* own.
FilterPool ==
    << [Cand(0, 450, 20, 20) EXCEPT !.fault = "boundingBox"],
       [Cand(0, 500, 20, 20) EXCEPT !.fault = "evaluate"],
       Cand(0, 0, 20, 20),
       [Cand(0, 50, 20, 20) EXCEPT !.hasBox = FALSE],
       Cand(0, 100, 9, 20),
       Cand(0, 150, 20, 9),
       Cand(0, 200, 10, 10),
       [Cand(0, 250, 20, 20) EXCEPT !.visibility = "hidden"],
       [Cand(0, 300, 20, 20) EXCEPT !.opacity = "0"],
       [Cand(0, 350, 20, 20) EXCEPT !.display = "none"],
       [Cand(0, 400, 20, 20) EXCEPT !.rect = [width |-> 0, height |-> 0]] >>

RECURSIVE pickFiltered(_, _)
pickFiltered(I, k) ==
    IF k > Len(FilterPool) THEN <<>>
    ELSE (IF k \in I THEN <<FilterPool[k]>> ELSE <<>>) \o pickFiltered(I, k + 1)

FilterLists ==
    {pickFiltered(I, 1) : I \in {J \in SUBSET (1..Len(FilterPool)) :
                                     Cardinality(J) <= MaxFiltered}}

FilterSites ==
    [regions : {<<e>> : e \in FilterLists}, nav : {<<0, 0, 3>>}, linkBox : {TRUE}]

PlanSites ==
    [regions : {<<e>> : e \in ElementLists}, nav : {<<0, 0, 3>>}, linkBox : {TRUE}]

BatchSites ==
    {[regions |-> <<>>, nav |-> <<0, 0, 2>>, linkBox |-> TRUE],
     [regions |-> << <<PoolSeq[1], PoolSeq[8]>> >>, nav |-> <<0, 1, 2>>,
      linkBox |-> TRUE]}

\* navLinks before line 270 is reached.
NoLinks == [selector |-> 0, length |-> 0, clicked |-> 0]

\* The value of swallowed in a session that is not traced.
Untraced == {"untraced"}

InitRest ==
    /\ pc = "scan"
    /\ folders = <<>>
    /\ idx = 1
    /\ failures = <<>>
    /\ exitCode = 0
    /\ log = <<>>
    /\ attempted = <<>>
    /\ spc = "idle"
    /\ err = "none"
    /\ started = FALSE
    /\ currentX = 640
    /\ currentY = 100
    /\ calls = <<>>
    /\ pageGone = FALSE
    /\ fs = {}
    /\ region = 1
    /\ nSections = 0
    /\ elementData = <<>>
    /\ limitedElements = <<>>
    /\ hoverIdx = 1
    /\ hovered = <<>>
    /\ navLinks = NoLinks

\* No animation is followed tick by tick.
MotionIdle ==
    /\ motion = [steps |-> 0, from |-> <<>>, to |-> <<>>]
    /\ tick = 0
    /\ trace = <<>>

ToolsIdle ==
    /\ toolInput = [tool |-> "none"]
    /\ toolOutput = [state |-> "none"]

CacheIdle ==
    /\ cachedWebsiteTemplateFilenames = <<>>
    /\ listCalls = <<>>

\* gptCall5 is not followed.
GptIdle ==
    [pc |-> "idle", retryCount |-> 0, maxRetries |-> 0, timer |-> "none",
     aborted |-> 0, cleared |-> 0, requests |-> 0, thrown |-> 0,
     delays |-> <<>>, result |-> "none"]

\* assignTemplateNamesToCurrentPitchList is not called.
AssignIdleBut ==
    /\ apc = "idle"
    /\ doc = [pitch_list |-> <<>>]
    /\ templateFilenames = <<>>
    /\ idToTemplate = <<>>
    /\ llmResult = [kind |-> "none", assignments |-> <<>>]
    /\ effects = <<>>
    /\ usedResourceDirs = {}
    /\ cachedWebsiteTemplateHtmlByFilename = {}
    /\ resources = <<>>

AssignIdle ==
    /\ AssignIdleBut
    /\ gpt = GptIdle

AuxIdle ==
    /\ MotionIdle
    /\ ToolsIdle
    /\ templatesDir = {}
    /\ CacheIdle
    /\ AssignIdle

Init ==
    /\ listing \in Listings
    /\ site \in BatchSites
    /\ swallowed = Untraced
    /\ InitRest
    /\ AuxIdle

InitPlan ==
    /\ listing = {[name |-> <<"a">>, dir |-> TRUE]}
    /\ site \in PlanSites
    /\ swallowed = Untraced
    /\ InitRest
    /\ AuxIdle

InitFilter ==
    /\ listing = {[name |-> <<"a">>, dir |-> TRUE]}
    /\ site \in FilterSites
    /\ swallowed = Untraced
    /\ InitRest
    /\ AuxIdle

\* Two folders of one site, the sessions traced.
FaultSites ==
    {[regions |-> << <<PoolSeq[1], PoolSeq[7]>> >>, nav |-> <<0, 3, 4>>,
      linkBox |-> TRUE],
     [regions |-> << <<PoolSeq[1]>>, <<PoolSeq[7]>> >>, nav |-> <<2, 0, 3>>,
      linkBox |-> TRUE],
     [regions |-> << <<PoolSeq[8]>> >>, nav |-> <<0, 0, 2>>, linkBox |-> TRUE],
     [regions |-> <<>>, nav |-> <<3, 4, 5>>, linkBox |-> FALSE]}

InitFaults ==
    /\ listing = {[name |-> <<"a">>, dir |-> TRUE],
                  [name |-> <<"a", "1">>, dir |-> TRUE]}
    /\ site \in FaultSites
    /\ swallowed = {}
    /\ InitRest
    /\ AuxIdle

(***************************************************************************)
(* recordAllBusinessesFromResources and the entry point.                   *)
(***************************************************************************)
sessionVars ==
    <<spc, err, started, currentX, currentY, calls, swallowed, pageGone>>

\* swallowed after the exception of a step was caught and ignored.
noting(step) ==
    IF swallowed = Untraced THEN swallowed ELSE swallowed \cup {step}

\* Lines 365-371: the scan succeeds.
Scan ==
    /\ pc = "scan"
    /\ folders' = listResourceBusinessDirs(listing)
    /\ IF Len(folders') = 0
       THEN /\ log' = Append(log, <<"NoFolders", <<>>>>)
            /\ pc' = "done"
       ELSE /\ log' = log
            /\ pc' = "loop"
    /\ UNCHANGED <<idx, failures, exitCode, attempted, fs>>
    /\ UNCHANGED <<sessionVars, planVars, inputVars, auxVars>>

\* Line 12 throws (readdir fails); the entry point's catch, lines 395-398.
ScanFails ==
    /\ pc = "scan"
    /\ log' = Append(log, <<"RecordingFailed", <<>>>>)
    /\ exitCode' = 1
    /\ pc' = "done"
    /\ UNCHANGED <<folders, idx, failures, attempted, fs>>
    /\ UNCHANGED <<sessionVars, planVars, inputVars, auxVars>>

\* Lines 373-376: the next folder; recordOneBusinessFolder is called.  The
\* locals of the call that ended are gone: the session variables start anew.
LoopStart ==
    /\ pc = "loop"
    /\ idx <= Len(folders)
    /\ log' = Append(log, <<"Recording", folders[idx]>>)
    /\ attempted' = Append(attempted, folders[idx])
    /\ pc' = "session"
    /\ spc' = "prepare"
    /\ err' = "none"
    /\ started' = FALSE
    /\ currentX' = 640
    /\ currentY' = 100
    /\ calls' = <<>>
    /\ swallowed' = IF swallowed = Untraced THEN swallowed ELSE {}
    /\ pageGone' = FALSE
    /\ region' = 1
    /\ nSections' = 0
    /\ elementData' = <<>>
    /\ limitedElements' = <<>>
    /\ hoverIdx' = 1
    /\ hovered' = <<>>
    /\ navLinks' = NoLinks
    /\ UNCHANGED <<folders, idx, failures, exitCode, fs, inputVars, auxVars>>

\* Line 377 without the await: the loop goes on while the call is running.
SessionReturnedUnawaited ==
    /\ pc = "session"
    /\ log' = Append(log, <<"Saved", folders[idx]>>)
    /\ idx' = idx + 1
    /\ pc' = "loop"
    /\ spc' = spc
    /\ UNCHANGED <<folders, failures, exitCode, attempted, fs>>
    /\ UNCHANGED <<err, started, currentX, currentY, calls, swallowed,
                   pageGone>>
    /\ UNCHANGED <<planVars, inputVars, auxVars>>

\* Line 377: the call returned.
SessionReturned ==
    /\ pc = "session"
    /\ spc = "returned"
    /\ log' = Append(log, <<"Saved", folders[idx]>>)
    /\ idx' = idx + 1
    /\ pc' = "loop"
    /\ spc' = "idle"
    /\ UNCHANGED <<folders, failures, exitCode, attempted, fs>>
    /\ UNCHANGED <<err, started, currentX, currentY, calls, swallowed,
                   pageGone>>
    /\ UNCHANGED <<planVars, inputVars, auxVars>>

\* Lines 378-381: the call threw.
SessionThrewEndsLoop ==
    /\ pc = "session"
    /\ spc = "thrown"
    /\ failures' = Append(failures, [folder |-> folders[idx], error |-> err])
    /\ log' = Append(log, <<"Failed", folders[idx]>>)
    /\ idx' = Len(folders) + 1
    /\ pc' = "loop"
    /\ spc' = "idle"
    /\ UNCHANGED <<folders, exitCode, attempted, fs>>
    /\ UNCHANGED <<err, started, currentX, currentY, calls, swallowed,
                   pageGone>>
    /\ UNCHANGED <<planVars, inputVars, auxVars>>

SessionThrew ==
    /\ pc = "session"
    /\ spc = "thrown"
    /\ failures' = Append(failures, [folder |-> folders[idx], error |-> err])
    /\ log' = Append(log, <<"Failed", folders[idx]>>)
    /\ idx' = idx + 1
    /\ pc' = "loop"
    /\ spc' = "idle"
    /\ UNCHANGED <<folders, exitCode, attempted, fs>>
    /\ UNCHANGED <<err, started, currentX, currentY, calls, swallowed,
                   pageGone>>
    /\ UNCHANGED <<planVars, inputVars, auxVars>>

\* Lines 384-388: the loop is over.
exitCodeNeverSet(fails, old) == old
exitCodeAfter(fails, old) == IF Len(fails) > 0 THEN 1 ELSE old

LoopExit ==
    /\ pc = "loop"
    /\ idx > Len(folders)
    /\ exitCode' = exitCodeAfter(failures, exitCode)
    /\ log' = IF Len(failures) > 0
              THEN Append(log, <<"Finished", <<>>>>) ELSE log
    /\ pc' = "done"
    /\ UNCHANGED <<folders, idx, failures, attempted, fs>>
    /\ UNCHANGED <<sessionVars, planVars, inputVars, auxVars>>


(***************************************************************************)
(* recordOneBusinessFolder(folders[idx]).  Each action is one awaited step *)
(* and its outcomes.  A step before the try block that throws leaves the   *)
(* function at once; a step inside it that throws enters the finally       *)
(* block with the exception in flight (err).                               *)
(***************************************************************************)
folderName == folders[idx]

InSession(at) == pc = "session" /\ spc = at

\* The function is left by an exception thrown outside the try block.
Throws(e) ==
    /\ spc' = "thrown"
    /\ err' = e

\* An exception thrown inside the try block: on to the finally block.
Fails(e) ==
    /\ spc' = "stop"
    /\ err' = e

\* Lines 59-75: the dynamic imports and mkdir of the profile directory.
Prepare ==
    /\ InSession("prepare")
    /\ \/ /\ fs' = fs \cup {Dir(userDataDirUrl(folderName))}
          /\ spc' = "launch"
          /\ err' = err
       \/ /\ Throws("prepare")
          /\ fs' = fs
    /\ UNCHANGED <<started, currentX, currentY, calls, pageGone>>
    /\ UNCHANGED <<batchVars, planVars, inputVars, auxVars, swallowed>>

\* Lines 77-91: puppeteer.launch.
Launch ==
    /\ InSession("launch")
    /\ \/ /\ calls' = Append(calls, "launch")
          /\ spc' = "newPage"
          /\ err' = err
       \/ /\ Throws("launch")
          /\ calls' = calls
    /\ UNCHANGED <<started, currentX, currentY, pageGone, fs>>
    /\ UNCHANGED <<batchVars, planVars, inputVars, auxVars, swallowed>>

\* Lines 93-94: browser.newPage.
NewPage ==
    /\ InSession("newPage")
    /\ \/ /\ calls' = Append(calls, "newPage")
          /\ spc' = "newRecorder"
          /\ err' = err
       \/ /\ Throws("newPage")
          /\ calls' = calls
    /\ UNCHANGED <<started, currentX, currentY, pageGone, fs>>
    /\ UNCHANGED <<batchVars, planVars, inputVars, auxVars, swallowed>>

\* Lines 96-101: new PuppeteerScreenRecorder.
NewRecorder ==
    /\ InSession("newRecorder")
    /\ \/ /\ spc' = "mkdirBusiness"
          /\ err' = err
       \/ Throws("newRecorder")
    /\ UNCHANGED <<started, currentX, currentY, calls, pageGone, fs>>
    /\ UNCHANGED <<batchVars, planVars, inputVars, auxVars, swallowed>>

\* Lines 103-107: mkdir of the business directory, then the locals.
MkdirBusiness ==
    /\ InSession("mkdirBusiness")
    /\ \/ /\ fs' = fs \cup {Dir(businessDirUrl(folderName))}
          /\ started' = FALSE
          /\ currentX' = 640
          /\ currentY' = 100
          /\ spc' = "goto"
          /\ err' = err
       \/ /\ Throws("mkdirBusiness")
          /\ UNCHANGED <<fs, started, currentX, currentY>>
    /\ UNCHANGED <<calls, pageGone>>
    /\ UNCHANGED <<batchVars, planVars, inputVars, auxVars, swallowed>>

\* Line 110: page.goto(indexUrl.href).
Goto ==
    /\ InSession("goto")
    /\ calls' = Append(calls, "goto")
    /\ \/ /\ spc' = "inject"
          /\ err' = err
       \/ Fails("goto")
    /\ UNCHANGED <<started, currentX, currentY, pageGone, fs>>
    /\ UNCHANGED <<batchVars, planVars, inputVars, auxVars, swallowed>>

\* Lines 113-148: the cursor overlay is injected.
InjectCursor ==
    /\ InSession("inject")
    /\ calls' = Append(calls, "inject")
    /\ \/ /\ spc' = "start"
          /\ err' = err
       \/ Fails("inject")
    /\ UNCHANGED <<started, currentX, currentY, pageGone, fs>>
    /\ UNCHANGED <<batchVars, planVars, inputVars, auxVars, swallowed>>

\* Lines 150-151: recorder.start(recordingPath); started = true.
StartCaptureEarlyFlag ==
    /\ InSession("start")
    /\ calls' = Append(calls, "recorder.start")
    /\ started' = TRUE
    /\ \/ /\ fs' = fs \cup {Video(recordingPath(folderName))}
          /\ spc' = "initCursor"
          /\ err' = err
       \/ /\ Fails("recorder.start")
          /\ fs' = fs
    /\ UNCHANGED <<currentX, currentY, pageGone>>
    /\ UNCHANGED <<batchVars, planVars, inputVars, auxVars, swallowed>>

\* Lines 150-151 with a failure of recorder.start() ignored.
StartCaptureSwallows ==
    /\ InSession("start")
    /\ calls' = Append(calls, "recorder.start")
    /\ \/ /\ fs' = fs \cup {Video(recordingPath(folderName))}
          /\ started' = TRUE
       \/ UNCHANGED <<fs, started>>
    /\ spc' = "initCursor"
    /\ UNCHANGED <<err, currentX, currentY, pageGone>>
    /\ UNCHANGED <<batchVars, planVars, inputVars, auxVars, swallowed>>

StartCapture ==
    /\ InSession("start")
    /\ calls' = Append(calls, "recorder.start")
    /\ \/ /\ fs' = fs \cup {Video(recordingPath(folderName))}
          /\ started' = TRUE
          /\ spc' = "initCursor"
          /\ err' = err
       \/ /\ Fails("recorder.start")
          /\ UNCHANGED <<fs, started>>
    /\ UNCHANGED <<currentX, currentY, pageGone>>
    /\ UNCHANGED <<batchVars, planVars, inputVars, auxVars, swallowed>>

\* Lines 154-158: the initial cursor position.
InitCursor ==
    /\ InSession("initCursor")
    /\ calls' = Append(calls, "mouse.move")
    /\ \/ /\ spc' = "sections"
          /\ err' = err
       \/ Fails("initCursor")
    /\ UNCHANGED <<started, currentX, currentY, pageGone, fs>>
    /\ UNCHANGED <<batchVars, planVars, inputVars, auxVars, swallowed>>

\* Line 161: page.$$("nav, section, footer").
QuerySections ==
    /\ InSession("sections")
    /\ \/ /\ nSections' = Len(site.regions)
          /\ region' = 1
          /\ spc' = "regionCheck"
          /\ err' = err
       \/ /\ Fails("sections")
          /\ UNCHANGED <<nSections, region>>
    /\ UNCHANGED <<started, currentX, currentY, calls, pageGone, fs>>
    /\ UNCHANGED <<elementData, limitedElements, hoverIdx, hovered, navLinks>>
    /\ UNCHANGED <<batchVars, inputVars, auxVars, swallowed>>


(***************************************************************************)
(* The interaction script.  page.isClosed() is asked at lines 164, 221 and *)
(* 265: the page may have been closed since it was last asked, and a       *)
(* closed page stays closed.                                               *)
(***************************************************************************)
\* Lines 163-164: the head of the loop over sections and its closed check.
RegionCheck ==
    /\ InSession("regionCheck")
    /\ IF region > nSections
       THEN /\ spc' = "topCheck"
            /\ pageGone' = pageGone
       ELSE \E gone \in {pageGone, TRUE} :
               /\ pageGone' = gone
               /\ spc' = IF gone THEN "topCheck" ELSE "regionScroll"
    /\ UNCHANGED <<err, started, currentX, currentY, calls, fs>>
    /\ UNCHANGED <<batchVars, planVars, inputVars, auxVars, swallowed>>

\* Lines 166-174: the section is scrolled into view (its offset is read and
\* the page scrolled there, logged as one call); a failure is caught at
\* line 259 and the loop continues with the next section.
RegionScroll ==
    /\ InSession("regionScroll")
    /\ calls' = Append(calls, "scroll")
    /\ \/ /\ spc' = "plan"
          /\ region' = region
       \/ /\ spc' = "regionCheck"
          /\ region' = region + 1
    /\ UNCHANGED <<err, started, currentX, currentY, pageGone, fs>>
    /\ UNCHANGED <<nSections, elementData, limitedElements, hoverIdx, hovered,
                   navLinks>>
    /\ UNCHANGED <<batchVars, inputVars, auxVars, swallowed>>

\* Lines 177-217: the elements of the section are queried, filtered, sorted
\* and cut; a failure of the query is caught at line 259.
PlanRegion ==
    /\ InSession("plan")
    /\ \/ \E sorted \in sortOutcomes(collectElementData(site.regions[region])) :
             /\ elementData' = sorted
             /\ limitedElements' = slice(sorted)
             /\ hoverIdx' = 1
             /\ hovered' = <<>>
             /\ spc' = "hoverCheck"
             /\ region' = region
       \/ /\ spc' = "regionCheck"
          /\ region' = region + 1
          /\ UNCHANGED <<elementData, limitedElements, hoverIdx, hovered>>
    /\ UNCHANGED <<err, started, currentX, currentY, calls, pageGone, fs>>
    /\ UNCHANGED <<nSections, navLinks>>
    /\ UNCHANGED <<batchVars, inputVars, auxVars, swallowed>>

\* Lines 220-221 and 258: the head of the hover loop and its closed check;
\* when the loop is left the block-scoped elementData and limitedElements go
\* out of scope and the next section follows.
HoverCheck ==
    /\ InSession("hoverCheck")
    /\ \E gone \in {pageGone, TRUE} :
          /\ pageGone' = IF hoverIdx > Len(limitedElements) THEN pageGone ELSE gone
          /\ IF hoverIdx > Len(limitedElements) \/ gone
             THEN /\ spc' = "regionCheck"
                  /\ region' = region + 1
                  /\ elementData' = <<>>
                  /\ limitedElements' = <<>>
                  /\ hoverIdx' = 1
                  /\ hovered' = <<>>
             ELSE /\ spc' = "hover"
                  /\ UNCHANGED <<region, elementData, limitedElements,
                                 hoverIdx, hovered>>
    /\ UNCHANGED <<err, started, currentX, currentY, calls, fs>>
    /\ UNCHANGED <<nSections, navLinks>>
    /\ UNCHANGED <<batchVars, inputVars, auxVars, swallowed>>

\* Lines 223-255: the cursor is moved to the centre of the target; a failed
\* tick is caught at line 253, before lines 249-250 are reached.
HoverThrows ==
    /\ InSession("hover")
    /\ hovered' = Append(hovered, limitedElements[hoverIdx])
    /\ calls' = Append(calls, "mouse.move")
    /\ \/ /\ currentX' = centerX(limitedElements[hoverIdx].box)
          /\ currentY' = centerY(limitedElements[hoverIdx].box)
          /\ hoverIdx' = hoverIdx + 1
          /\ spc' = "hoverCheck"
          /\ err' = err
       \/ /\ UNCHANGED <<currentX, currentY, hoverIdx>>
          /\ Fails("hover")
    /\ UNCHANGED <<started, pageGone, fs, swallowed>>
    /\ UNCHANGED <<region, nSections, elementData, limitedElements, navLinks>>
    /\ UNCHANGED <<batchVars, inputVars, auxVars>>

Hover ==
    /\ InSession("hover")
    /\ hovered' = Append(hovered, limitedElements[hoverIdx])
    /\ calls' = Append(calls, "mouse.move")
    /\ \/ /\ currentX' = centerX(limitedElements[hoverIdx].box)
          /\ currentY' = centerY(limitedElements[hoverIdx].box)
          /\ swallowed' = swallowed
       \/ /\ UNCHANGED <<currentX, currentY>>
          /\ swallowed' = noting("hover")
    /\ hoverIdx' = hoverIdx + 1
    /\ spc' = "hoverCheck"
    /\ UNCHANGED <<err, started, pageGone, fs>>
    /\ UNCHANGED <<region, nSections, elementData, limitedElements, navLinks>>
    /\ UNCHANGED <<batchVars, inputVars, auxVars>>

\* Line 265: the closed check before the scroll to the top.
TopCheckUnguarded ==
    /\ InSession("topCheck")
    /\ \E gone \in {pageGone, TRUE} :
          /\ pageGone' = gone
          /\ spc' = "scrollTop"
    /\ UNCHANGED <<err, started, currentX, currentY, calls, fs>>
    /\ UNCHANGED <<batchVars, planVars, inputVars, auxVars, swallowed>>

TopCheck ==
    /\ InSession("topCheck")
    /\ \E gone \in {pageGone, TRUE} :
          /\ pageGone' = gone
          /\ spc' = IF gone THEN "stop" ELSE "scrollTop"
    /\ UNCHANGED <<err, started, currentX, currentY, calls, fs>>
    /\ UNCHANGED <<batchVars, planVars, inputVars, auxVars, swallowed>>

\* Lines 266-267: smoothScroll(page, 0, 800).
ScrollTop ==
    /\ InSession("scrollTop")
    /\ calls' = Append(calls, "scroll")
    /\ \/ /\ spc' = "navQuery"
          /\ err' = err
       \/ Fails("scrollTop")
    /\ UNCHANGED <<started, currentX, currentY, pageGone, fs>>
    /\ UNCHANGED <<batchVars, planVars, inputVars, auxVars, swallowed>>

\* Lines 270-272: the nav links, by three selectors in turn.
\* nav[k] is the number of links the k-th selector ("nav .nav-links a",
\* "nav #navLinks a", "nav a") matches.
selectNavLinksLast(nav) == [selector |-> 3, length |-> nav[3], clicked |-> 0]

selectNavLinks(nav) ==
    IF nav[1] >= 3 THEN [selector |-> 1, length |-> nav[1], clicked |-> 0]
    ELSE IF nav[2] >= 3 THEN [selector |-> 2, length |-> nav[2], clicked |-> 0]
    ELSE [selector |-> 3, length |-> nav[3], clicked |-> 0]

NavQuery ==
    /\ InSession("navQuery")
    /\ \/ /\ navLinks' = selectNavLinks(site.nav)
          /\ spc' = "navClick"
          /\ err' = err
       \/ /\ Fails("navQuery")
          /\ navLinks' = navLinks
    /\ UNCHANGED <<started, currentX, currentY, calls, pageGone, fs>>
    /\ UNCHANGED <<region, nSections, elementData, limitedElements, hoverIdx,
                   hovered>>
    /\ UNCHANGED <<batchVars, inputVars, auxVars, swallowed>>

\* Lines 274-326: with at least three links the third one is moved to and
\* clicked, and the section its anchor names is scrolled to, inside a try
\* block whose catch ignores a failure.  The calls issued stop at the one
\* that throws; without a failure they stop before the move when the link
\* has no box (boundingBox() answers null, line 277) and before the scroll
\* when the anchor names no element.  The link clicked is navLinks[2], the
\* third of the list.
navClickOutcomes(n, hasBox) ==
    IF n < 3 THEN {[issued |-> <<>>, threw |-> FALSE]}
    ELSE IF ~hasBox
    THEN {[issued |-> <<>>, threw |-> FALSE],
          [issued |-> <<>>, threw |-> TRUE]}
    ELSE {[issued |-> <<>>, threw |-> TRUE],
          [issued |-> <<"mouse.move">>, threw |-> TRUE],
          [issued |-> <<"mouse.move", "click">>, threw |-> TRUE],
          [issued |-> <<"mouse.move", "click">>, threw |-> FALSE],
          [issued |-> <<"mouse.move", "click", "scroll">>, threw |-> TRUE],
          [issued |-> <<"mouse.move", "click", "scroll">>, threw |-> FALSE]}

NavClick ==
    /\ InSession("navClick")
    /\ \E outcome \in navClickOutcomes(navLinks.length, site.linkBox) :
          /\ calls' = calls \o outcome.issued
          /\ swallowed' = IF outcome.threw THEN noting("nav") ELSE swallowed
          /\ navLinks' = IF \E k \in 1..Len(outcome.issued) :
                               outcome.issued[k] = "click"
                         THEN [navLinks EXCEPT !.clicked = 3] ELSE navLinks
    /\ spc' = "stop"
    /\ UNCHANGED <<err, started, currentX, currentY, pageGone, fs>>
    /\ UNCHANGED <<region, nSections, elementData, limitedElements, hoverIdx,
                   hovered>>
    /\ UNCHANGED <<batchVars, inputVars, auxVars>>

(***************************************************************************)
(* The finally block and the side-car record.                              *)
(***************************************************************************)
\* Lines 329-335: recorder.stop(), if started; a failure is ignored.
stopCallsUnguarded(isStarted) == <<"recorder.stop">>
stopCalls(isStarted) == IF isStarted THEN <<"recorder.stop">> ELSE <<>>

StopCapture ==
    /\ InSession("stop")
    /\ calls' = calls \o stopCalls(started)
    /\ swallowed' \in IF stopCalls(started) = <<>> THEN {swallowed}
                       ELSE {swallowed, noting("recorder.stop")}
    /\ spc' = "pageClose"
    /\ UNCHANGED <<err, started, currentX, currentY, pageGone, fs>>
    /\ UNCHANGED <<batchVars, planVars, inputVars, auxVars>>

\* Lines 336-340: page.close(); a failure is ignored.
ClosePageThrows ==
    /\ InSession("pageClose")
    /\ calls' = Append(calls, "page.close")
    /\ \/ /\ spc' = "browserClose"
          /\ err' = err
       \/ /\ spc' = "thrown"
          /\ err' = "page.close"
    /\ UNCHANGED <<started, currentX, currentY, pageGone, fs, swallowed>>
    /\ UNCHANGED <<batchVars, planVars, inputVars, auxVars>>

ClosePage ==
    /\ InSession("pageClose")
    /\ calls' = Append(calls, "page.close")
    /\ swallowed' \in {swallowed, noting("page.close")}
    /\ spc' = "browserClose"
    /\ UNCHANGED <<err, started, currentX, currentY, pageGone, fs>>
    /\ UNCHANGED <<batchVars, planVars, inputVars, auxVars>>

\* Lines 341-346: browser.close(); a failure is ignored.  The finally block
\* ends: an exception in flight leaves the function.
CloseBrowserSwallows ==
    /\ InSession("browserClose")
    /\ calls' = Append(calls, "browser.close")
    /\ swallowed' \in {swallowed, noting("browser.close")}
    /\ spc' = "writeMeta"
    /\ UNCHANGED <<err, started, currentX, currentY, pageGone, fs>>
    /\ UNCHANGED <<batchVars, planVars, inputVars, auxVars>>

CloseBrowser ==
    /\ InSession("browserClose")
    /\ calls' = Append(calls, "browser.close")
    /\ swallowed' \in {swallowed, noting("browser.close")}
    /\ spc' = IF err # "none" THEN "thrown" ELSE "writeMeta"
    /\ UNCHANGED <<err, started, currentX, currentY, pageGone, fs>>
    /\ UNCHANGED <<batchVars, planVars, inputVars, auxVars>>

\* Lines 348-361: recording.json is written.
WriteMeta ==
    /\ InSession("writeMeta")
    /\ calls' = Append(calls, "writeFile")
    /\ \/ /\ fs' = fs \cup {Json(metaUrl(folderName), metaRecord(folderName))}
          /\ spc' = "returned"
          /\ err' = err
       \/ /\ Throws("writeFile")
          /\ fs' = fs
    /\ UNCHANGED <<started, currentX, currentY, pageGone>>
    /\ UNCHANGED <<batchVars, planVars, inputVars, auxVars, swallowed>>

Next ==
    \/ Scan \/ ScanFails \/ LoopStart \/ SessionReturned \/ SessionThrew
    \/ LoopExit
    \/ Prepare \/ Launch \/ NewPage \/ NewRecorder \/ MkdirBusiness
    \/ Goto \/ InjectCursor \/ StartCapture \/ InitCursor \/ QuerySections
    \/ RegionCheck \/ RegionScroll \/ PlanRegion \/ HoverCheck \/ Hover
    \/ TopCheck \/ ScrollTop \/ NavQuery \/ NavClick
    \/ StopCapture \/ ClosePage \/ CloseBrowser \/ WriteMeta

Spec == Init /\ [][Next]_vars

SpecPlan == InitPlan /\ [][Next]_vars

SpecFilter == InitFilter /\ [][Next]_vars

SpecFaults == InitFaults /\ [][Next]_vars


(***************************************************************************)
(* Numbers.  A JavaScript number is an IEEE 754 binary64 value; every      *)
(* finite one is a dyadic rational (-1)^neg * m * 2^e.  The magnitude m is *)
(* a natural number of any size, kept as its digits in base 2^14, least    *)
(* significant first, without leading zero digits (0 is <<>>).  The        *)
(* arithmetic operators of the code are the exact operation followed by    *)
(* rounding to 53 significant bits, ties to even; the values of the model  *)
(* stay far from overflow and underflow.                                   *)
(***************************************************************************)
RECURSIVE trim(_)
trim(n) == IF n # <<>> /\ n[Len(n)] = 0 THEN trim(SubSeq(n, 1, Len(n) - 1)) ELSE n

RECURSIVE natOf(_)
natOf(k) == IF k = 0 THEN <<>> ELSE <<k % 16384>> \o natOf(k \div 16384)

digit(n, k) == IF k <= Len(n) THEN n[k] ELSE 0

RECURSIVE addFrom(_, _, _, _)
addFrom(a, b, k, carry) ==
    IF k > Len(a) /\ k > Len(b) THEN (IF carry = 0 THEN <<>> ELSE <<carry>>)
    ELSE LET x == digit(a, k) + digit(b, k) + carry
         IN  <<x % 16384>> \o addFrom(a, b, k + 1, x \div 16384)

\* a - b for a >= b
RECURSIVE subFrom(_, _, _, _)
subFrom(a, b, k, borrow) ==
    IF k > Len(a) THEN <<>>
    ELSE LET x == digit(a, k) - digit(b, k) - borrow
         IN  <<(x + 16384) % 16384>>
                 \o subFrom(a, b, k + 1, IF x < 0 THEN 1 ELSE 0)

natSub(a, b) == trim(subFrom(a, b, 1, 0))

RECURSIVE cmpFrom(_, _, _)
cmpFrom(a, b, k) ==
    IF k = 0 THEN 0
    ELSE IF a[k] < b[k] THEN -1
    ELSE IF a[k] > b[k] THEN 1
    ELSE cmpFrom(a, b, k - 1)

natCmp(a, b) ==
    IF Len(a) < Len(b) THEN -1
    ELSE IF Len(a) > Len(b) THEN 1
    ELSE cmpFrom(a, b, Len(a))

\* a * d for a digit d
RECURSIVE scaleFrom(_, _, _, _)
scaleFrom(a, d, k, carry) ==
    IF k > Len(a) THEN (IF carry = 0 THEN <<>> ELSE <<carry>>)
    ELSE LET x == a[k] * d + carry
         IN  <<x % 16384>> \o scaleFrom(a, d, k + 1, x \div 16384)

RECURSIVE natMul(_, _)
natMul(a, b) ==
    IF a = <<>> \/ b = <<>> THEN <<>>
    ELSE LET rest == natMul(a, Tail(b))
         IN  addFrom(trim(scaleFrom(a, Head(b), 1, 0)),
                     IF rest = <<>> THEN <<>> ELSE <<0>> \o rest, 1, 0)

\* floor(n / d) for a digit d > 0, from the most significant digit down
RECURSIVE quotFrom(_, _, _, _)
quotFrom(n, d, k, rem) ==
    IF k = 0 THEN <<>>
    ELSE LET x == rem * 16384 + n[k]
         IN  quotFrom(n, d, k - 1, x % d) \o <<x \div d>>

natDiv(n, d) == trim(quotFrom(n, d, Len(n), 0))

\* n * 2^k and floor(n / 2^k)
shiftLeft(n, k) ==
    IF n = <<>> THEN <<>>
    ELSE [j \in 1..(k \div 14) |-> 0] \o scaleFrom(n, 2 ^ (k % 14), 1, 0)

shiftRight(n, k) ==
    natDiv(SubSeq(n, (k \div 14) + 1, Len(n)), 2 ^ (k % 14))

RECURSIVE width(_)
width(v) == IF v = 0 THEN 0 ELSE 1 + width(v \div 2)

bitLength(n) ==
    IF n = <<>> THEN 0 ELSE 14 * (Len(n) - 1) + width(n[Len(n)])

\* The one representation of a value: m odd, or zero.
RECURSIVE canon(_)
canon(x) ==
    IF x.m = <<>> THEN [neg |-> FALSE, m |-> <<>>, e |-> 0]
    ELSE IF x.m[1] = 0 THEN canon([x EXCEPT !.m = Tail(x.m), !.e = x.e + 14])
    ELSE IF x.m[1] % 2 = 0
         THEN canon([x EXCEPT !.m = natDiv(x.m, 2), !.e = x.e + 1])
    ELSE x

num(k) == canon([neg |-> k < 0, m |-> natOf(IF k < 0 THEN -k ELSE k), e |-> 0])

negate(x) == IF x.m = <<>> THEN x ELSE [x EXCEPT !.neg = ~x.neg]

\* Exact sum and product of two dyadic rationals.
exactSum(a, b) ==
    LET e == IF a.e < b.e THEN a.e ELSE b.e
        ma == shiftLeft(a.m, a.e - e)
        mb == shiftLeft(b.m, b.e - e)
    IN  canon(IF a.neg = b.neg THEN [neg |-> a.neg, m |-> addFrom(ma, mb, 1, 0), e |-> e]
              ELSE IF natCmp(ma, mb) >= 0
                   THEN [neg |-> a.neg, m |-> natSub(ma, mb), e |-> e]
              ELSE [neg |-> b.neg, m |-> natSub(mb, ma), e |-> e])

exactProduct(a, b) ==
    canon([neg |-> a.neg # b.neg, m |-> natMul(a.m, b.m), e |-> a.e + b.e])

\* Rounding to binary64: 53 significant bits, ties to even.
round(x) ==
    LET drop == bitLength(x.m) - 53
    IN  IF drop <= 0 THEN canon(x)
        ELSE LET q == shiftRight(x.m, drop)
                 c == natCmp(natSub(x.m, shiftLeft(q, drop)),
                             shiftLeft(<<1>>, drop - 1))
                 up == c > 0 \/ (c = 0 /\ q[1] % 2 = 1)
             IN  canon([neg |-> x.neg,
                        m |-> IF up THEN addFrom(q, <<1>>, 1, 0) ELSE q,
                        e |-> x.e + drop])

\* The operators + - * < of the code, and / on two small whole numbers
\* (i / steps) and by a power of two.
plus(a, b) == round(exactSum(a, b))
minus(a, b) == round(exactSum(a, negate(b)))
times(a, b) == round(exactProduct(a, b))
less(a, b) == exactSum(a, negate(b)).neg

ratio(i, n) ==
    LET scaled == shiftLeft(natOf(i), 64)
        q == natDiv(scaled, n)
        sticky == IF natMul(q, natOf(n)) = scaled THEN 0 ELSE 1
    IN  round([neg |-> FALSE,
               m |-> addFrom(scaleFrom(q, 2, 1, 0), natOf(sticky), 1, 0),
               e |-> -65])

halve(x) == IF x.m = <<>> THEN x ELSE [x EXCEPT !.e = x.e - 1]

twoTo(k) == [neg |-> FALSE, m |-> <<1>>, e |-> k]

\* Math.sqrt(s) <= c for a whole number c > 0.  Math.sqrt is correctly
\* rounded, so it is at most c exactly when the square root of s is below
\* the middle of c and the next number above c, which is c plus half the
\* weight of the last of the 53 bits of c; the square of the middle has
\* more than 53 bits, so s is never equal to it.
rootAtMost(s, c) ==
    LET middle == exactSum(num(c), twoTo(width(c) - 54))
    IN  less(s, exactProduct(middle, middle))

(***************************************************************************)
(* Smooth motion primitives: the animation loops of smoothMouseMove,       *)
(* smoothScroll, the hover move and the nav-link move.  The four loops     *)
(* compute the same progress, eased value and position at every tick.      *)
(***************************************************************************)
\* Lines 28-30, 48-50, 235-237 and 285-287.  Math.pow(x, 2) is the product
\* x * x correctly rounded.
easedFirstBranchOnly(progress) == times(times(num(2), progress), progress)

easedNotHalved(progress) ==
    IF less(progress, halve(num(1)))
    THEN times(times(num(2), progress), progress)
    ELSE LET base == plus(times(num(-2), progress), num(2))
         IN  minus(num(1), times(base, base))

eased(progress) ==
    IF less(progress, halve(num(1)))
    THEN times(times(num(2), progress), progress)
    ELSE LET base == plus(times(num(-2), progress), num(2))
         IN  minus(num(1), halve(times(base, base)))

\* Lines 32, 52, 239 and 289: the position issued at a tick.
interpolate(from, to, e) == plus(from, times(minus(to, from), e))

\* Start and target positions: whole pixels, and positions that are not
\* whole (layout under a transform or zoom): 0.1 and 100.1.
Starts == {num(640), ratio(1, 10)}
Targets == {num(0), num(100), num(640), ratio(1001, 10)}

Motions == [steps : 1..MaxSteps, from : Starts, to : Targets]

RecorderIdle ==
    /\ listing = {}
    /\ site = [regions |-> <<>>, nav |-> <<0, 0, 0>>, linkBox |-> TRUE]
    /\ swallowed = Untraced
    /\ InitRest

InitMotion ==
    /\ motion \in Motions
    /\ tick = 0
    /\ trace = <<>>
    /\ ToolsIdle
    /\ templatesDir = {}
    /\ CacheIdle
    /\ AssignIdle
    /\ RecorderIdle

recorderVars == <<batchVars, sessionVars, planVars, inputVars, fs>>

\* One iteration of the loop (lines 25-37, 45-55, 233-247, 283-297): the
\* position of tick i is computed and issued to the page.
Tick ==
    /\ tick <= motion.steps
    /\ LET progress == ratio(tick, motion.steps)
           e == eased(progress)
       IN  trace' = Append(trace, [progress |-> progress, eased |-> e,
                                   at |-> interpolate(motion.from, motion.to, e)])
    /\ tick' = tick + 1
    /\ UNCHANGED <<motion, recorderVars, toolVars, templatesDir, cacheVars,
                   assignVars>>

NextMotion == Tick

SpecMotion == InitMotion /\ [][NextMotion]_vars


(***************************************************************************)
(* The cursor followed tick by tick: the hover loop over the targets of a  *)
(* section (lines 220-256) and the move to the nav link (lines 276-297),   *)
(* in a session of one section, from the state line 157 leaves.  Every     *)
(* call on the page may throw.                                             *)
(***************************************************************************)
MaxTargets == 2

boxAt(x, y) == [x |-> x, y |-> y, width |-> num(20), height |-> num(20)]

\* Targets in the order of the sort, each in a row of its own, by their
\* centres: (640, 100), (1056, 150), (100.1, 210.5), (640, 516),
\* (1440, 700), (640, 868).
HoverPool ==
    << boxAt(num(630), num(90)),
       boxAt(num(1046), num(140)),
       boxAt(ratio(901, 10), ratio(401, 2)),
       boxAt(num(630), num(506)),
       boxAt(num(1430), num(690)),
       boxAt(num(630), num(858)) >>

\* limitedElements: up to MaxTargets neighbours of the pool.
HoverLists ==
    {[k \in 1..p[2] |-> [el |-> k, box |-> HoverPool[p[1] + k - 1]]] :
        p \in {q \in (1..Len(HoverPool)) \X (0..MaxTargets) :
                  q[1] + q[2] - 1 <= Len(HoverPool)}}

\* The box boundingBox() answers for navLinks[2].
LinkBoxes == {boxAt(ratio(9001, 10), ratio(41, 2))}

\* Lines 224-225 and 278-279.
centre(box) ==
    <<plus(box.x, halve(box.width)), plus(box.y, halve(box.height))>>

\* Line 228 up to the square root: the sum of the squares.
squares(from, to) ==
    LET dx == minus(to[1], from[1])
        dy == minus(to[2], from[2])
    IN  plus(times(dx, dx), times(dy, dy))

\* Lines 228-229: duration <= y for a whole number y, where duration is
\* Math.min(400, Math.max(200, distance / 2)) and distance is Math.sqrt(s);
\* the division by 2 is exact.
durationAtMostUncapped(s, y) == 200 <= y /\ rootAtMost(s, 2 * y)
durationAtMost(s, y) == 400 <= y \/ (200 <= y /\ rootAtMost(s, 2 * y))

\* Line 232: Math.ceil(duration / 16), the least whole number n with
\* duration <= 16 n; the division by 16 is exact.
hoverSteps(s) ==
    CHOOSE n \in 0..MaxSteps :
        /\ durationAtMost(s, 16 * n)
        /\ n = 0 \/ ~durationAtMost(s, 16 * (n - 1))

\* No animation is in flight.
NoMotion == [kind |-> "none", steps |-> 0, to |-> <<>>, at |-> <<>>]

InitHover ==
    /\ listing = {}
    /\ site = [regions |-> <<>>, nav |-> <<0, 0, 0>>, linkBox |-> TRUE]
    /\ swallowed = Untraced
    /\ pc = "session"
    /\ folders = <<>>
    /\ idx = 1
    /\ failures = <<>>
    /\ exitCode = 0
    /\ log = <<>>
    /\ attempted = <<>>
    /\ spc = "hoverCheck"
    /\ err = "none"
    /\ started = TRUE
    /\ currentX = num(640)
    /\ currentY = num(100)
    /\ calls = <<>>
    /\ pageGone = FALSE
    /\ fs = {}
    /\ region = 1
    /\ nSections = 1
    /\ elementData = <<>>
    /\ limitedElements \in HoverLists
    /\ hoverIdx = 1
    /\ hovered = <<>>
    /\ navLinks = NoLinks
    /\ motion = NoMotion
    /\ tick = 0
    /\ trace = <<[call |-> "mouse.move", at |-> <<num(640), num(100)>>,
                  ok |-> TRUE],
                 [call |-> "updateCursor", at |-> <<num(640), num(100)>>,
                  ok |-> TRUE]>>
    /\ ToolsIdle
    /\ templatesDir = {}
    /\ CacheIdle
    /\ AssignIdle

\* What the cursor actions leave alone.
hoverOthers ==
    <<batchVars, inputVars, err, started, calls, swallowed, fs, region,
      nSections, elementData, limitedElements, hovered, navLinks, toolVars,
      templatesDir, cacheVars, assignVars>>

\* Lines 220-232: the closed check, the centre of the target, and the
\* number of steps of the move to it.
HoverBegin ==
    /\ InSession("hoverCheck")
    /\ hoverIdx <= Len(limitedElements)
    /\ \E gone \in {pageGone, TRUE} :
          /\ pageGone' = gone
          /\ IF gone
             THEN /\ spc' = "over"
                  /\ UNCHANGED <<motion, tick>>
             ELSE LET to == centre(limitedElements[hoverIdx].box)
                      s == squares(<<currentX, currentY>>, to)
                  IN  /\ motion' = [kind |-> "hover", steps |-> hoverSteps(s),
                                    to |-> to, at |-> <<>>]
                      /\ tick' = 0
                      /\ spc' = "tickMove"
    /\ UNCHANGED <<currentX, currentY, hoverIdx, trace, hoverOthers>>

\* Lines 258-282, once the targets are through: the closed check, the
\* scroll to the top and the nav links; with a box for the third link the
\* move to its centre begins, in 20 steps; else the script is over.
NavBegin ==
    /\ InSession("hoverCheck")
    /\ hoverIdx > Len(limitedElements)
    /\ \/ /\ spc' = "over"
          /\ UNCHANGED <<motion, tick>>
       \/ \E linkBox \in LinkBoxes :
             /\ motion' = [kind |-> "nav", steps |-> 20,
                           to |-> centre(linkBox), at |-> <<>>]
             /\ tick' = 0
             /\ spc' = "tickMove"
    /\ UNCHANGED <<currentX, currentY, hoverIdx, trace, pageGone, hoverOthers>>

\* The animation is left, by its last tick or by an exception (the catch
\* of line 253 or 321): its locals are gone; the next target follows a
\* hover, and nothing moves the cursor after the move to the nav link.
AnimationOver ==
    /\ motion' = NoMotion
    /\ tick' = 0
    /\ spc' = IF motion.kind = "hover" THEN "hoverCheck" ELSE "over"
    /\ hoverIdx' = IF motion.kind = "hover" THEN hoverIdx + 1 ELSE hoverIdx

\* Lines 23-38 (smoothMouseMove): the tick moves the mouse and goes on to
\* the next tick; the overlay is not told.
MoveTickOnly ==
    /\ InSession("tickMove")
    /\ LET e == eased(ratio(tick, motion.steps))
           at == <<interpolate(currentX, motion.to[1], e),
                   interpolate(currentY, motion.to[2], e)>>
       IN  \/ /\ trace' = <<[call |-> "mouse.move", at |-> at, ok |-> TRUE]>>
              /\ IF tick < motion.steps
                 THEN /\ motion' = [motion EXCEPT !.at = at]
                      /\ tick' = tick + 1
                      /\ UNCHANGED <<spc, hoverIdx>>
                 ELSE AnimationOver
           \/ /\ trace' = trace
              /\ AnimationOver
    /\ UNCHANGED <<currentX, currentY, pageGone, hoverOthers>>

\* Lines 234-242 and 284-292: the position of tick i, and page.mouse.move to
\* it; when it throws the pointer has not moved and the animation is over.
MoveTick ==
    /\ InSession("tickMove")
    /\ LET e == eased(ratio(tick, motion.steps))
           at == <<interpolate(currentX, motion.to[1], e),
                   interpolate(currentY, motion.to[2], e)>>
       IN  \/ /\ trace' = <<[call |-> "mouse.move", at |-> at, ok |-> TRUE]>>
              /\ motion' = [motion EXCEPT !.at = at]
              /\ spc' = "tickUpdate"
              /\ UNCHANGED <<tick, hoverIdx>>
           \/ /\ trace' = trace
              /\ AnimationOver
    /\ UNCHANGED <<currentX, currentY, pageGone, hoverOthers>>

\* Lines 243-250 without lines 249-250.
UpdateTickKeepsPosition ==
    /\ InSession("tickUpdate")
    /\ \E ok \in BOOLEAN :
          /\ trace' = Append(trace, [call |-> "updateCursor", at |-> motion.at,
                                     ok |-> ok])
          /\ IF ok /\ tick < motion.steps
             THEN /\ tick' = tick + 1
                  /\ spc' = "tickMove"
                  /\ UNCHANGED <<motion, hoverIdx>>
             ELSE AnimationOver
    /\ UNCHANGED <<currentX, currentY, pageGone, hoverOthers>>

\* Lines 243-250 and 293-297: the overlay is told the same position
\* (window.updateCursor(x, y)) and the tick sleeps; after the last tick of a
\* hover the tracked position becomes the centre of the target (lines
\* 249-250); after the last tick of the nav move the link is clicked.  When
\* the call throws the animation is over.
UpdateTick ==
    /\ InSession("tickUpdate")
    /\ \E ok \in BOOLEAN :
          /\ trace' = Append(trace, [call |-> "updateCursor", at |-> motion.at,
                                     ok |-> ok])
          /\ IF ok /\ tick < motion.steps
             THEN /\ tick' = tick + 1
                  /\ spc' = "tickMove"
                  /\ UNCHANGED <<motion, hoverIdx, currentX, currentY>>
             ELSE /\ AnimationOver
                  /\ IF ok /\ motion.kind = "hover"
                     THEN /\ currentX' = motion.to[1]
                          /\ currentY' = motion.to[2]
                     ELSE UNCHANGED <<currentX, currentY>>
    /\ UNCHANGED <<pageGone, hoverOthers>>

NextHover ==
    \/ HoverBegin
    \/ MoveTick
    \/ UpdateTick
    \/ NavBegin

SpecHover == InitHover /\ [][NextHover]_vars


(***************************************************************************)
(* The tools serp_tool and unsplash_photo_search.  A JSON value that may   *)
(* be absent is <<>> (undefined) or <<v>>; a string is truthy when it is   *)
(* not empty.                                                              *)
(***************************************************************************)
truthy(v) == v # <<>> /\ v[1] # ""

\* a || b
orElse(a, b) == IF truthy(a) THEN a ELSE b

\* object?.name
field(object, name) == IF object = <<>> THEN <<>> ELSE object[1][name]

\* Lines 645-652: the filter on one local result.
keepsLinksPhoneOnly(result) ==
    /\ ~truthy(field(result.links, "website"))
    /\ truthy(field(result.links, "phone"))

keeps(result) ==
    LET hasNoWebsite == ~truthy(field(result.links, "website"))
        hasPhone == truthy(orElse(field(result.links, "phone"), result.phone))
    IN  hasNoWebsite /\ hasPhone

\* Lines 653-659.
structured(result) ==
    [name |-> orElse(result.title, <<"">>)[1],
     type |-> orElse(result.type, <<"">>)[1],
     description |-> orElse(result.description, <<"">>)[1],
     phone |-> orElse(orElse(field(result.links, "phone"), result.phone),
                      <<"">>)[1],
     address |-> orElse(result.address, <<"">>)[1]]

\* Lines 639-660; data.local_results is absent, an array, or another value.
filterAndStructureResults(data) ==
    IF data.local_results = <<>> \/ ~data.local_results[1].isArray THEN <<>>
    ELSE LET kept == SelectSeq(data.local_results[1].items, keeps)
         IN  [k \in 1..Len(kept) |-> structured(kept[k])]

\* Lines 78-114 of get_photo.ts (the fields of a photo: id and description).
filterAndStructurePhotos(data) ==
    IF data.results = <<>> \/ ~data.results[1].isArray
    THEN [total |-> 0, photos |-> <<>>]
    ELSE [total |-> data.total,
          photos |-> [k \in 1..Len(data.results[1].items) |->
                        LET photo == data.results[1].items[k]
                        IN  [id |-> photo.id,
                             description |->
                                 orElse(orElse(photo.description,
                                               photo.alt_description),
                                        <<"">>)[1]]]]

\* Number.prototype.toString on a whole number from 0 to 99.
toString(n) ==
    LET digits == <<"0", "1", "2", "3", "4", "5", "6", "7", "8", "9">>
    IN  IF n < 10 THEN <<digits[n + 1]>>
        ELSE <<digits[(n \div 10) + 1], digits[(n % 10) + 1]>>

\* Lines 28-43 of get_photo.ts: the search parameters of the request.
searchParams(params) ==
    [query |-> params.query, page |-> "1", per_page |-> toString(2),
     order_by |-> "relevant", content_filter |-> "high",
     orientation |-> params.orientation, color |-> params.color]

\* The local results a SERP API answer may hold.
LinkObjects ==
    {<<>>} \cup {<<l>> : l \in [website : {<<>>, <<"">>, <<"w">>},
                                phone : {<<>>, <<"p">>}]}

LocalResults(k) ==
    [title : {<<<<"b1">>, <<"b2">>, <<"b3">>>>[k]}, links : LinkObjects,
     phone : {<<>>, <<"">>, <<"q">>}, type : {<<>>}, description : {<<>>},
     address : {<<>>}]

RECURSIVE ResultLists(_)
ResultLists(n) ==
    IF n = 0 THEN {<<>>}
    ELSE LET shorter == ResultLists(n - 1)
         IN  shorter \cup
             {Append(l, r) : l \in {x \in shorter : Len(x) = n - 1},
                             r \in LocalResults(n)}

SerpData ==
    {[local_results |-> <<>>],
     [local_results |-> << [isArray |-> FALSE, items |-> <<>>] >>]}
    \cup {[local_results |-> << [isArray |-> TRUE, items |-> l] >>] :
              l \in ResultLists(MaxResults)}

PhotoData ==
    {[results |-> <<>>, total |-> 0],
     [results |-> << [isArray |-> TRUE,
                      items |-> << [id |-> "x", description |-> <<>>,
                                    alt_description |-> <<"alt">>] >>] >>,
      total |-> 1]}

\* The arguments the schema of lines 118-123 of get_photo.ts admits.
PhotoArgs ==
    [query : {"shop"}, per_page : {<<>>} \cup {<<n>> : n \in 1..30},
     orientation : {<<>>, <<"landscape">>}, color : {<<>>, <<"red">>}]

\* api: "nokey" (the key is not in the environment), "error" (the response
\* is not ok) or "ok".
ToolInputs ==
    [tool : {"serp_tool"}, args : [query : {"shops"}],
     api : {"nokey", "error", "ok"}, data : SerpData]
    \cup [tool : {"unsplash_photo_search"}, args : PhotoArgs,
          api : {"nokey", "error", "ok"}, data : PhotoData]

InitTools ==
    /\ toolInput \in ToolInputs
    /\ toolOutput = [state |-> "none"]
    /\ MotionIdle
    /\ templatesDir = {}
    /\ CacheIdle
    /\ AssignIdle
    /\ RecorderIdle

NoRequest == [sent |-> FALSE]

\* Lines 605-636 with executeSerpQuery (lines 560-604).
SerpTool ==
    /\ toolInput.tool = "serp_tool"
    /\ toolOutput.state = "none"
    /\ toolOutput' =
          IF toolInput.api = "nokey"
          THEN [state |-> "returned", isError |-> TRUE, request |-> NoRequest]
          ELSE LET request == [sent |-> TRUE, engine |-> "google_local",
                               q |-> toolInput.args.query]
               IN  IF toolInput.api = "error"
                   THEN [state |-> "returned", isError |-> TRUE,
                         request |-> request]
                   ELSE LET filteredResults ==
                                filterAndStructureResults(toolInput.data)
                        IN  [state |-> "returned", isError |-> FALSE,
                             request |-> request,
                             total_filtered_results |-> Len(filteredResults),
                             results |-> filteredResults]
    /\ UNCHANGED <<toolInput, motionVars, recorderVars, templatesDir,
                   cacheVars, assignVars>>

\* Lines 116-145 of get_photo.ts with executeUnsplashQuery (lines 15-75).
UnsplashTool ==
    /\ toolInput.tool = "unsplash_photo_search"
    /\ toolOutput.state = "none"
    /\ toolOutput' =
          IF toolInput.api = "nokey"
          THEN [state |-> "returned", isError |-> TRUE, request |-> NoRequest]
          ELSE LET request == [sent |-> TRUE,
                               params |-> searchParams(toolInput.args)]
               IN  IF toolInput.api = "error"
                   THEN [state |-> "returned", isError |-> TRUE,
                         request |-> request]
                   ELSE [state |-> "returned", isError |-> FALSE,
                         request |-> request,
                         result |-> filterAndStructurePhotos(toolInput.data)]
    /\ UNCHANGED <<toolInput, motionVars, recorderVars, templatesDir,
                   cacheVars, assignVars>>

NextTools == SerpTool \/ UnsplashTool

SpecTools == InitTools /\ [][NextTools]_vars


(***************************************************************************)
(* listWebsiteTemplateFilenames and its module-level cache.  Every readdir *)
(* that resolves builds a new array: an array is its identity (the number  *)
(* of the call that built it) and the names it holds.                      *)
(***************************************************************************)
\* Lines 306-310: files only, hidden names dropped, sorted.
templateNames(entries) ==
    SortNames({e.name : e \in {d \in entries :
                                  ~d.dir /\ ~startsWithDot(d.name)}})

\* The templates directories considered.
TemplateDirs ==
    {{},
     {[name |-> <<"a">>, dir |-> FALSE]},
     {[name |-> <<"a">>, dir |-> FALSE], [name |-> <<"a", "1">>, dir |-> FALSE],
      [name |-> <<".", "a">>, dir |-> FALSE],
      [name |-> <<"a", "_">>, dir |-> TRUE]}}

InitCache ==
    /\ templatesDir \in TemplateDirs
    /\ CacheIdle
    /\ AssignIdle
    /\ MotionIdle
    /\ ToolsIdle
    /\ RecorderIdle

othersOfCache == <<assignVars, motionVars, toolVars, recorderVars>>

\* A call begins: line 301 returns the cached array, or readdir is issued.
\* warm records that an earlier call had returned when this one was made.
ListCall ==
    /\ Len(listCalls) < MaxCalls
    /\ LET warm == \E c \in 1..Len(listCalls) : listCalls[c].pc = "returned"
       IN  listCalls' =
             Append(listCalls,
                    IF cachedWebsiteTemplateFilenames # <<>>
                    THEN [pc |-> "returned", read |-> FALSE, warm |-> warm,
                          result |-> cachedWebsiteTemplateFilenames]
                    ELSE [pc |-> "reading", read |-> TRUE, warm |-> warm,
                          result |-> <<>>])
    /\ UNCHANGED <<cachedWebsiteTemplateFilenames, templatesDir, othersOfCache>>

\* Lines 304-312: readdir resolves; the new array is stored and returned.
ReaddirResolves ==
    \E c \in 1..Len(listCalls) :
        /\ listCalls[c].pc = "reading"
        /\ LET array == [id |-> c, names |-> templateNames(templatesDir)]
           IN  /\ cachedWebsiteTemplateFilenames' = <<array>>
               /\ listCalls' = [listCalls EXCEPT ![c].pc = "returned",
                                                 ![c].result = <<array>>]
        /\ UNCHANGED <<templatesDir, othersOfCache>>

\* Line 304: readdir rejects; the call throws and stores nothing.
ReaddirRejects ==
    \E c \in 1..Len(listCalls) :
        /\ listCalls[c].pc = "reading"
        /\ listCalls' = [listCalls EXCEPT ![c].pc = "threw"]
        /\ UNCHANGED <<cachedWebsiteTemplateFilenames, templatesDir,
                       othersOfCache>>

\* A template file is added to or removed from the directory.
TemplatesChange ==
    /\ \E c \in 1..Len(listCalls) : listCalls[c].pc = "reading"
    /\ LET file == [name |-> <<"a", "#">>, dir |-> FALSE]
       IN  templatesDir' = IF file \in templatesDir
                           THEN templatesDir \ {file}
                           ELSE templatesDir \cup {file}
    /\ UNCHANGED <<cacheVars, othersOfCache>>

NextCache == ListCall \/ ReaddirResolves \/ ReaddirRejects \/ TemplatesChange

SpecCache == InitCache /\ [][NextCache]_vars

(***************************************************************************)
(* assignTemplateNamesToCurrentPitchList.  Strings are sequences of        *)
(* characters; an answer of gptCall5 is "empty" (the empty string), an     *)
(* "object" without an assignments array, an "array" of assignments or an  *)
(* object "wrapped" around one.                                            *)
(***************************************************************************)
\* String.prototype.trim
RECURSIVE trimStart(_)
trimStart(str) ==
    IF str # <<>> /\ Head(str) = " " THEN trimStart(Tail(str)) ELSE str

RECURSIVE trimEnd(_)
trimEnd(str) ==
    IF str # <<>> /\ str[Len(str)] = " " THEN trimEnd(Front(str)) ELSE str

trimmed(str) == trimEnd(trimStart(str))

\* `${i}:${j}`
pitchId(i, j) == toString(i) \o <<":">> \o toString(j)

\* Lines 360-372 and 375: the pitch ids in document order.
RECURSIVE idsFrom(_, _, _)
idsFrom(list, i, j) ==
    IF i > Len(list) THEN <<>>
    ELSE IF j > Len(list[i].pitches) THEN idsFrom(list, i + 1, 1)
    ELSE <<pitchId(i - 1, j - 1)>> \o idsFrom(list, i, j + 1)

allPitchIds(d) == idsFrom(d.pitch_list, 1, 1)

Range(seq) == {seq[k] : k \in 1..Len(seq)}

mapSet(map, key, value) ==
    [x \in DOMAIN map \cup {key} |-> IF x = key THEN value ELSE map[x]]

\* Lines 384-390 from assignment k on.
RECURSIVE mergeUnchecked(_, _, _, _)
mergeUnchecked(map, items, k, validTemplates) ==
    IF k > Len(items) THEN map
    ELSE LET pitch_id == trimmed(items[k].pitch_id)
             template_name == trimmed(items[k].template_name)
         IN  IF pitch_id = <<>>
             THEN mergeUnchecked(map, items, k + 1, validTemplates)
             ELSE mergeUnchecked(mapSet(map, pitch_id, template_name), items,
                                 k + 1, validTemplates)

RECURSIVE mergeFrom(_, _, _, _)
mergeFrom(map, items, k, validTemplates) ==
    IF k > Len(items) THEN map
    ELSE LET pitch_id == trimmed(items[k].pitch_id)
             template_name == trimmed(items[k].template_name)
         IN  IF pitch_id = <<>> \/ template_name \notin validTemplates
             THEN mergeFrom(map, items, k + 1, validTemplates)
             ELSE mergeFrom(mapSet(map, pitch_id, template_name), items,
                            k + 1, validTemplates)

\* Lines 378-391.
mergeAssignmentsIntoMap(map, answer, validTemplates) ==
    IF answer.kind \notin {"array", "wrapped"} THEN map
    ELSE mergeFrom(map, answer.assignments, 1, validTemplates)

\* Lines 493-496: the positions <<i, j>> of the pitches in document order
\* (counted from 1).
RECURSIVE positionsFrom(_, _, _)
positionsFrom(list, i, j) ==
    IF i > Len(list) THEN <<>>
    ELSE IF j > Len(list[i].pitches) THEN positionsFrom(list, i + 1, 1)
    ELSE << <<i, j>> >> \o positionsFrom(list, i, j + 1)

pitchPositions(d) == positionsFrom(d.pitch_list, 1, 1)

\* The characters of business names: the letters and digits, upper case
\* letters, and others.
Digits == {"0", "1", "2", "3", "4", "5", "6", "7", "8", "9"}
LowerCase ==
    {"a", "b", "c", "d", "e", "f", "g", "h", "i", "j", "k", "l", "m", "n",
     "o", "p", "q", "r", "s", "t", "u", "v", "w", "x", "y", "z"}

\* String.prototype.toLowerCase on the upper case letters of the names.
toLowerCase(str) ==
    [k \in 1..Len(str) |->
        CASE str[k] = "A" -> "a"
          [] str[k] = "B" -> "b"
          [] OTHER -> str[k]]

\* .replace(/&/g, ' and ')
RECURSIVE replaceAmpersands(_)
replaceAmpersands(str) ==
    IF str = <<>> THEN <<>>
    ELSE (IF Head(str) = "&" THEN <<" ", "a", "n", "d", " ">>
          ELSE <<Head(str)>>) \o replaceAmpersands(Tail(str))

\* .replace(/[^a-z0-9]+/g, '_')
RECURSIVE replaceOthers(_, _)
replaceOthers(str, inRun) ==
    IF str = <<>> THEN <<>>
    ELSE IF Head(str) \in LowerCase \cup Digits
         THEN <<Head(str)>> \o replaceOthers(Tail(str), FALSE)
         ELSE (IF inRun THEN <<>> ELSE <<"_">>)
                 \o replaceOthers(Tail(str), TRUE)

\* .replace(/^_+|_+$/g, '')
RECURSIVE stripStart(_)
stripStart(str) ==
    IF str # <<>> /\ Head(str) = "_" THEN stripStart(Tail(str)) ELSE str

RECURSIVE stripEnd(_)
stripEnd(str) ==
    IF str # <<>> /\ str[Len(str)] = "_" THEN stripEnd(Front(str)) ELSE str

\* .replace(/_+/g, '_')
RECURSIVE collapse(_)
collapse(str) ==
    IF Len(str) < 2 THEN str
    ELSE IF str[1] = "_" /\ str[2] = "_" THEN collapse(Tail(str))
    ELSE <<Head(str)>> \o collapse(Tail(str))

\* Lines 482-491.
toSafeDirName(name) ==
    LET cleaned ==
            collapse(stripEnd(stripStart(
                replaceOthers(replaceAmpersands(toLowerCase(trimmed(name))),
                              FALSE))))
    IN  IF cleaned = <<>> THEN <<"b", "u", "s", "i", "n", "e", "s", "s">>
        ELSE cleaned

\* The documents: at most two groups and MaxPitches pitches.
Pitch == [name |-> <<"a">>, template_name |-> <<>>]

Docs ==
    {[pitch_list |-> [i \in 1..Len(sizes) |->
                        [pitches |-> [j \in 1..sizes[i] |-> Pitch]]]] :
        sizes \in {q \in UNION {[1..n -> 0..MaxPitches] : n \in 0..2} :
                     (IF Len(q) = 0 THEN 0
                      ELSE IF Len(q) = 1 THEN q[1] ELSE q[1] + q[2])
                         <= MaxPitches}}

\* The answers the model may give about the pitch ids asked for: for each
\* id (and for the empty id) no assignment or one naming "a", " a1 " or the
\* name "z" no template has; the second id is written with blanks around it.
TemplateChoices == {<<>>, <<"a">>, <<" ", "a", "1", " ">>, <<"z">>}

Answers(ids) ==
    LET asked == ids \o << <<>> >>
        written(k) == IF k = 2 THEN <<" ">> \o asked[k] \o <<" ">>
                      ELSE asked[k]
        named(a) == a.template_name # <<>>
    IN  {[kind |-> "empty", assignments |-> <<>>],
         [kind |-> "object", assignments |-> <<>>]}
        \cup {[kind |-> kind,
               assignments |->
                   SelectSeq([k \in 1..Len(asked) |->
                                 [pitch_id |-> written(k),
                                  template_name |-> choice[k]]], named)] :
                 kind \in {"array", "wrapped"},
                 choice \in [1..Len(asked) -> TemplateChoices]}

missing(map, d) == {id \in Range(allPitchIds(d)) : id \notin DOMAIN map}

InitAssign ==
    /\ templatesDir \in TemplateDirs
    /\ CacheIdle
    /\ apc = "start"
    /\ doc \in Docs
    /\ templateFilenames = <<>>
    /\ idToTemplate = <<>>
    /\ llmResult = [kind |-> "none", assignments |-> <<>>]
    /\ effects = <<>>
    /\ usedResourceDirs = {}
    /\ cachedWebsiteTemplateHtmlByFilename = {}
    /\ resources = <<>>
    /\ gpt = GptIdle
    /\ MotionIdle
    /\ ToolsIdle
    /\ RecorderIdle

othersOfAssign == <<templatesDir, motionVars, toolVars, recorderVars, gpt>>

\* Lines 343-346: the list call of a new process, and the empty check.
ListTemplates ==
    /\ apc = "start"
    /\ \/ /\ apc' = "threw"
          /\ listCalls' = Append(listCalls,
                                 [pc |-> "threw", read |-> TRUE,
                                  warm |-> FALSE, result |-> <<>>])
          /\ UNCHANGED <<cachedWebsiteTemplateFilenames, templateFilenames>>
       \/ LET array == [id |-> Len(listCalls) + 1,
                        names |-> templateNames(templatesDir)]
          IN  /\ cachedWebsiteTemplateFilenames' = <<array>>
              /\ listCalls' = Append(listCalls,
                                     [pc |-> "returned", read |-> TRUE,
                                      warm |-> FALSE, result |-> <<array>>])
              /\ templateFilenames' = array.names
              /\ apc' = IF Len(array.names) = 0 THEN "threw" ELSE "listed"
    /\ UNCHANGED <<doc, idToTemplate, llmResult, effects, materialVars,
                   othersOfAssign>>

\* Lines 350-352: readFile and JSON.parse succeed or throw.
ReadDoc ==
    /\ apc = "listed"
    /\ apc' \in {"prompting", "threw"}
    /\ UNCHANGED <<doc, templateFilenames, idToTemplate, llmResult, effects,
                   cacheVars, materialVars,
                   othersOfAssign>>

\* Lines 409-417: the first prompt.
FirstPrompt ==
    /\ apc = "prompting"
    /\ \E answer \in Answers(allPitchIds(doc)) :
          /\ llmResult' = answer
          /\ effects' = Append(effects, "prompt")
          /\ IF answer.kind = "empty"
             THEN apc' = "threw" /\ UNCHANGED idToTemplate
             ELSE /\ idToTemplate' =
                       mergeAssignmentsIntoMap(idToTemplate, answer,
                                               Range(templateFilenames))
                  /\ apc' = IF missing(idToTemplate', doc) # {}
                            THEN "retrying" ELSE "merged"
    /\ UNCHANGED <<doc, templateFilenames, cacheVars, materialVars,
                   othersOfAssign>>

\* Lines 418-445: the retry prompt about the pitches still missing.
RetryPrompt ==
    /\ apc = "retrying"
    /\ \E answer \in Answers(SelectSeq(allPitchIds(doc),
                                        LAMBDA id : id \notin DOMAIN idToTemplate)) :
          /\ llmResult' = answer
          /\ effects' = Append(effects, "retryPrompt")
          /\ idToTemplate' =
                IF answer.kind = "empty" THEN idToTemplate
                ELSE mergeAssignmentsIntoMap(idToTemplate, answer,
                                             Range(templateFilenames))
    /\ apc' = "merged"
    /\ UNCHANGED <<doc, templateFilenames, cacheVars, materialVars,
                   othersOfAssign>>

\* As Assign, without the throw of lines 447-452.
AssignLenient ==
    /\ apc = "merged"
    /\ apc' = "assigned"
    /\ doc' =
         [pitch_list |->
            [i \in 1..Len(doc.pitch_list) |->
               [pitches |->
                  [j \in 1..Len(doc.pitch_list[i].pitches) |->
                     [doc.pitch_list[i].pitches[j] EXCEPT
                        !.template_name =
                           IF pitchId(i - 1, j - 1) \in DOMAIN idToTemplate
                           THEN <<idToTemplate[pitchId(i - 1, j - 1)]>>
                           ELSE <<>>]]]]]
    /\ UNCHANGED <<templateFilenames, idToTemplate, llmResult, effects,
                   cacheVars, materialVars, othersOfAssign>>

\* Lines 447-463: throw when an id is missing, else set every template_name.
Assign ==
    /\ apc = "merged"
    /\ IF missing(idToTemplate, doc) # {}
       THEN apc' = "threw" /\ UNCHANGED doc
       ELSE /\ apc' = "assigned"
            /\ doc' =
                 [pitch_list |->
                    [i \in 1..Len(doc.pitch_list) |->
                       [pitches |->
                          [j \in 1..Len(doc.pitch_list[i].pitches) |->
                             [doc.pitch_list[i].pitches[j] EXCEPT
                                !.template_name =
                                   <<idToTemplate[pitchId(i - 1, j - 1)]>>]]]]]
    /\ UNCHANGED <<templateFilenames, idToTemplate, llmResult, effects,
                   cacheVars, materialVars,
                   othersOfAssign>>

\* Lines 465-491: readTemplateHtml, toSafeDirName and the empty Set
\* usedResourceDirs are set up; the loop of lines 493-521 is entered, and is
\* over at once when the document has no pitch.
Materialize ==
    /\ apc = "assigned"
    /\ apc' = IF allPitchIds(doc) = <<>> THEN "materialized"
              ELSE "materializing"
    /\ effects' = Append(effects, "materialize")
    /\ usedResourceDirs' = {}
    /\ UNCHANGED <<doc, templateFilenames, idToTemplate, llmResult,
                   cachedWebsiteTemplateHtmlByFilename, resources, cacheVars,
                   othersOfAssign>>

\* The pitches whose index.html this run has written.
written == SelectSeq(resources, LAMBDA r : r.op = "writeFile")

\* Lines 510-513: let dirName, and the suffix `_${i}_${j}` when it is taken.
chooseDirName(used, businessName, i, j) ==
    LET dirName == toSafeDirName(businessName)
    IN  IF dirName \in used
        THEN dirName \o <<"_">> \o toString(i) \o <<"_">> \o toString(j)
        ELSE dirName

\* Lines 493-521, one iteration of the inner loop: the template is read
\* (unless the Map has it), the directory name chosen and added to
\* usedResourceDirs, the directory made and index.html written; each of
\* readFile, mkdir and writeFile may throw.
MaterializePitch ==
    /\ apc = "materializing"
    /\ LET k == Len(written) + 1
           at == pitchPositions(doc)[k]
           pitch == doc.pitch_list[at[1]].pitches[at[2]]
           businessName == trimmed(pitch.name)
           dirName == chooseDirName(usedResourceDirs, businessName,
                                    at[1] - 1, at[2] - 1)
           entry(op) == [op |-> op, dir |-> dirName,
                         pitch_id |-> pitchId(at[1] - 1, at[2] - 1)]
           last == k = Len(pitchPositions(doc))
       IN  IF pitch.template_name = <<>>
           THEN /\ apc' = "threw"
                /\ UNCHANGED materialVars
           ELSE \E outcome \in {"readFile", "mkdir", "writeFile", "ok"} :
                  /\ outcome = "readFile" =>
                        pitch.template_name[1]
                            \notin cachedWebsiteTemplateHtmlByFilename
                  /\ apc' = IF outcome # "ok" THEN "threw"
                            ELSE IF last THEN "materialized"
                            ELSE "materializing"
                  /\ cachedWebsiteTemplateHtmlByFilename' =
                        IF outcome = "readFile"
                        THEN cachedWebsiteTemplateHtmlByFilename
                        ELSE cachedWebsiteTemplateHtmlByFilename
                                \cup {pitch.template_name[1]}
                  /\ usedResourceDirs' =
                        IF outcome = "readFile" THEN usedResourceDirs
                        ELSE usedResourceDirs \cup {dirName}
                  /\ resources' =
                        CASE outcome \in {"readFile", "mkdir"} -> resources
                          [] outcome = "writeFile" ->
                                Append(resources, entry("mkdir"))
                          [] outcome = "ok" ->
                                resources \o <<entry("mkdir"),
                                               entry("writeFile")>>
    /\ UNCHANGED <<doc, templateFilenames, idToTemplate, llmResult, effects,
                   cacheVars, othersOfAssign>>

\* Lines 524-525: current_pitch_list.json is rewritten and doc returned.
WriteStaging ==
    /\ apc = "materialized"
    /\ apc' \in {"returned", "threw"}
    /\ effects' = Append(effects, "writeStaging")
    /\ UNCHANGED <<doc, templateFilenames, idToTemplate, llmResult,
                   materialVars, cacheVars, othersOfAssign>>

NextAssign ==
    \/ ListTemplates
    \/ ReadDoc
    \/ FirstPrompt
    \/ RetryPrompt
    \/ Assign
    \/ Materialize
    \/ MaterializePitch
    \/ WriteStaging

SpecAssign == InitAssign /\ [][NextAssign]_vars

(***************************************************************************)
(* gptCall5 (lines 199-283).  gpt.timer is the timer of the attempt in     *)
(* flight: "armed" by setTimeout, "fired" when its callback ran,           *)
(* "cleared" by clearTimeout; aborted counts controller.abort(), cleared   *)
(* the calls of clearTimeout, requests the calls of responses.create,      *)
(* thrown those that threw; delays are the delayMs waited.  The result is  *)
(* "" (the empty string), "object" (the JSON extracted) or "null"          *)
(* (extractJsonFromResponse found none).                                   *)
(***************************************************************************)
MaxRetries == 3

InitGpt ==
    /\ \E maxRetries \in 0..MaxRetries :
          gpt = [GptIdle EXCEPT !.pc = "call", !.maxRetries = maxRetries]
    /\ AssignIdleBut
    /\ MotionIdle
    /\ ToolsIdle
    /\ templatesDir = {}
    /\ CacheIdle
    /\ RecorderIdle

othersOfGpt ==
    <<apc, doc, templateFilenames, idToTemplate, llmResult, effects,
      materialVars, templatesDir, cacheVars, motionVars, toolVars,
      recorderVars>>

\* Lines 207-239: the controller and its 30 second timer are made and the
\* request is sent; controller.signal is not given to the request.
GptCall ==
    /\ gpt.pc = "call"
    /\ gpt' = [gpt EXCEPT !.pc = "pending", !.timer = "armed",
                          !.requests = @ + 1]
    /\ UNCHANGED othersOfGpt

\* Line 208: after 30 seconds without clearTimeout the callback aborts the
\* controller, which nothing listens to.
GptAbort ==
    /\ gpt.pc = "pending"
    /\ gpt.timer = "armed"
    /\ gpt' = [gpt EXCEPT !.timer = "fired", !.aborted = @ + 1]
    /\ UNCHANGED othersOfGpt

\* clearTimeout(timeoutId)
clearTimeout(g) ==
    [g EXCEPT !.timer = IF @ = "armed" THEN "cleared" ELSE @,
              !.cleared = @ + 1]

\* Lines 241-256: the request resolves, with no text, with text that holds
\* JSON or with text that holds none.
GptAnswer ==
    /\ gpt.pc = "pending"
    /\ \E content \in {"", "json", "text"} :
          gpt' = [clearTimeout(gpt) EXCEPT
                     !.pc = "returned",
                     !.result = CASE content = "" -> ""
                                  [] content = "json" -> "object"
                                  [] content = "text" -> "null"]
    /\ UNCHANGED othersOfGpt

\* As GptThrows, with one retry more.
GptThrowsOnceMore ==
    /\ gpt.pc = "pending"
    /\ gpt' = IF gpt.retryCount <= gpt.maxRetries
              THEN [clearTimeout(gpt) EXCEPT
                       !.pc = "waiting", !.thrown = @ + 1,
                       !.delays = Append(@, (2 ^ gpt.retryCount) * 1000)]
              ELSE [clearTimeout(gpt) EXCEPT
                       !.pc = "returned", !.thrown = @ + 1, !.result = ""]
    /\ UNCHANGED othersOfGpt

\* Lines 257-281: the request throws; the timer is cleared and the call
\* waits delayMs before it retries, or returns '' after the last attempt.
GptThrows ==
    /\ gpt.pc = "pending"
    /\ gpt' = IF gpt.retryCount < gpt.maxRetries
              THEN [clearTimeout(gpt) EXCEPT
                       !.pc = "waiting", !.thrown = @ + 1,
                       !.delays = Append(@, (2 ^ gpt.retryCount) * 1000)]
              ELSE [clearTimeout(gpt) EXCEPT
                       !.pc = "returned", !.thrown = @ + 1, !.result = ""]
    /\ UNCHANGED othersOfGpt

\* Lines 274-276: the delay is over and gptCall5 calls itself with
\* retryCount + 1; what that call returns is returned.
GptRetry ==
    /\ gpt.pc = "waiting"
    /\ gpt' = [gpt EXCEPT !.pc = "call", !.retryCount = @ + 1,
                          !.timer = "none"]
    /\ UNCHANGED othersOfGpt

NextGpt == GptCall \/ GptAbort \/ GptAnswer \/ GptThrows \/ GptRetry

\* The request sent settles and the delay of a retry passes.
SpecGpt ==
    /\ InitGpt
    /\ [][NextGpt]_vars
    /\ WF_vars(GptCall)
    /\ WF_vars(GptAnswer \/ GptThrows)
    /\ WF_vars(GptRetry)

(***************************************************************************)
(* The resource directories of pitches with different names.               *)
(***************************************************************************)
MaxNamed == 3

\* Business names: "a", " A", "a 0_2", "A&" and the empty name.
BusinessNames ==
    {<<"a">>, <<" ", "A">>, <<"a", " ", "0", "_", "2">>, <<"A", "&">>, <<>>}

\* Documents of at most two groups and MaxNamed pitches, every pitch with a
\* name of BusinessNames and the template "a" assigned (lines 454-463).
NamedDocs ==
    LET total(q) == IF Len(q) = 0 THEN 0
                    ELSE IF Len(q) = 1 THEN q[1] ELSE q[1] + q[2]
        before(q, i) == IF i = 1 THEN 0 ELSE q[1]
    IN  UNION {{[pitch_list |-> [i \in 1..Len(q) |->
                    [pitches |-> [j \in 1..q[i] |->
                        [name |-> naming[before(q, i) + j],
                         template_name |-> << <<"a">> >>]]]]] :
                  naming \in [1..total(q) -> BusinessNames]} :
               q \in {r \in UNION {[1..n -> 0..MaxNamed] : n \in 0..2} :
                        total(r) <= MaxNamed}}

\* The state after lines 343-463 went through with a first answer that
\* assigns the template "a" to every pitch.
InitNames ==
    /\ templatesDir = {[name |-> <<"a">>, dir |-> FALSE],
                       [name |-> <<"a", "1">>, dir |-> FALSE]}
    /\ templateFilenames = templateNames(templatesDir)
    /\ cachedWebsiteTemplateFilenames =
          <<[id |-> 1, names |-> templateFilenames]>>
    /\ listCalls = <<[pc |-> "returned", read |-> TRUE, warm |-> FALSE,
                      result |-> cachedWebsiteTemplateFilenames]>>
    /\ apc = "assigned"
    /\ doc \in NamedDocs
    /\ idToTemplate = [id \in Range(allPitchIds(doc)) |-> <<"a">>]
    /\ llmResult = [kind |-> "array",
                    assignments |->
                        [k \in 1..Len(allPitchIds(doc)) |->
                            [pitch_id |-> allPitchIds(doc)[k],
                             template_name |-> <<"a">>]]]
    /\ effects = <<"prompt">>
    /\ usedResourceDirs = {}
    /\ cachedWebsiteTemplateHtmlByFilename = {}
    /\ resources = <<>>
    /\ gpt = GptIdle
    /\ MotionIdle
    /\ ToolsIdle
    /\ RecorderIdle

NextNames == Materialize \/ MaterializePitch \/ WriteStaging

SpecNames == InitNames /\ [][NextNames]_vars


(***************************************************************************)
(* Properties.                                                             *)
(***************************************************************************)
RECURSIVE Count(_, _)
Count(s, x) ==
    IF s = <<>> THEN 0
    ELSE (IF Head(s) = x THEN 1 ELSE 0) + Count(Tail(s), x)


SessionOver == spc \in {"returned", "thrown"}

\* recorder.start was called in this session and did not throw.
StartCompleted == Count(calls, "recorder.start") = 1 /\ err # "recorder.start"

\* readdir answered (the scan did not throw).
ScanAnswered == pc # "scan" /\ <<"RecordingFailed", <<>>>> \notin Range(log)

\* C1: in every session in which the browser was launched, browser.close is
\* attempted exactly once before the call returns or throws, and page.close
\* exactly once if the page was opened, whichever later step fails.
C1_ReleaseOnEveryExit ==
    (SessionOver /\ Count(calls, "launch") = 1) =>
        /\ Count(calls, "browser.close") = 1
        /\ Count(calls, "newPage") = 1 => Count(calls, "page.close") = 1

\* C2: recorder.stop is invoked at most once in a session, only if
\* recorder.start completed without error, and whenever it did the stop has
\* been attempted by the time the session returns or throws.
C2_StopIffStartCompleted ==
    /\ Count(calls, "recorder.stop") <= 1
    /\ Count(calls, "recorder.stop") = 1 => StartCompleted
    /\ (SessionOver /\ StartCompleted) => Count(calls, "recorder.stop") = 1

C2_Witness ==
    /\ spc = "thrown"
    /\ StartCompleted
    /\ Count(calls, "recorder.stop") = 1

\* C3: a session whose recorder.start throws never calls recorder.stop, calls
\* page.close and then browser.close, and its error becomes the failure the
\* batch records for that folder.
C3_StartFailure ==
    err = "recorder.start" =>
        /\ Count(calls, "recorder.stop") = 0
        /\ spc \notin {"writeMeta", "returned"}
        /\ spc \in {"thrown", "idle"} =>
              /\ Len(calls) >= 2
              /\ calls[Len(calls) - 1] = "page.close"
              /\ calls[Len(calls)] = "browser.close"
              /\ Count(calls, "page.close") = 1
              /\ Count(calls, "browser.close") = 1
        /\ spc = "idle" =>
              /\ failures # <<>>
              /\ failures[Len(failures)] =
                    [folder |-> folders[idx - 1], error |-> "recorder.start"]

C3_Witness ==
    /\ spc = "idle"
    /\ err = "recorder.start"
    /\ Len(failures) = 1


\* The entries of the listing that are directories and not hidden.
Qualifying == {e.name : e \in {d \in listing : d.dir /\ Head(d.name) # "."}}

FailedFolders == {log[k][2] : k \in {n \in 1..Len(log) : log[n][1] = "Failed"}}
SavedFolders == {log[k][2] : k \in {n \in 1..Len(log) : log[n][1] = "Saved"}}

\* C4: recordOneBusinessFolder is invoked exactly once for every folder of the
\* list, whichever folders fail, and failures ends with exactly one
\* {folder, error} entry per folder that threw and none for the others.
C4_FailureIsolation ==
    /\ [][ /\ (pc = "session" /\ spc = "thrown" /\ spc' = "idle") =>
                /\ failures' =
                      Append(failures, [folder |-> folders[idx], error |-> err])
                /\ idx' = idx + 1
           /\ (pc = "session" /\ spc = "returned" /\ spc' = "idle") =>
                /\ failures' = failures
                /\ idx' = idx + 1
           /\ failures' # failures => spc = "thrown" ]_vars
    /\ [](pc = "done" /\ ScanAnswered => attempted = folders)

C4_Witness ==
    /\ pc = "done"
    /\ Len(folders) = 2
    /\ attempted = folders
    /\ Len(failures) = 1
    /\ failures[1].folder = folders[1]

\* C5: the run ends with exit status 0 when every folder succeeded or the
\* list is empty and with a non-zero status when a folder failed, and the
\* non-zero status is set only after every folder has been attempted.
C5_ExitStatus ==
    ScanAnswered =>
        /\ pc = "done" => (exitCode = 0 <=> FailedFolders = {})
        /\ exitCode # 0 => (pc = "done" /\ attempted = folders)

C5_Witness ==
    /\ pc = "done"
    /\ exitCode = 1
    /\ Len(folders) = 2
    /\ Cardinality(FailedFolders) = 1
    /\ Cardinality(SavedFolders) = 1

\* C6 as stated: the folders processed are the qualifying entries, each once,
\* in lexicographic (code unit) order.
C6_CodeUnitOrder ==
    (pc = "done" /\ ScanAnswered) =>
        /\ Range(attempted) = Qualifying
        /\ Len(attempted) = Cardinality(Qualifying)
        /\ \A i, j \in 1..Len(attempted) :
              i < j => CodeUnitLess(attempted[i], attempted[j])

\* C6 (amended): the folders processed are exactly the entries that are
\* directories and whose names do not begin with ".", each once, in the
\* order of localeCompare (collation order, not code unit order); an empty
\* qualifying set is a run that attempts nothing, writes nothing and ends
\* with status 0.
C6_CollationOrder ==
    (pc = "done" /\ ScanAnswered) =>
        /\ Range(attempted) = Qualifying
        /\ Len(attempted) = Cardinality(Qualifying)
        /\ \A i, j \in 1..Len(attempted) :
              i < j => localeCompare(attempted[i], attempted[j]) < 0
        /\ Qualifying = {} => (attempted = <<>> /\ fs = {} /\ exitCode = 0)

C6_Witness ==
    /\ pc = "done"
    /\ ScanAnswered
    /\ Len(attempted) = 2
    /\ Cardinality(listing) = 3
    /\ \E e \in listing : e.dir /\ Head(e.name) = "."
    /\ CodeUnitLess(attempted[2], attempted[1])

\* C7: when page.goto throws for a folder, capture is never started for it,
\* the session writes neither recording.mp4 nor recording.json, the folder is
\* logged and recorded as one failure, and the batch goes on to the next
\* folder.
C7_NavigationFailure ==
    /\ [][ /\ err' = "goto" =>
                /\ fs' = fs
                /\ ~started'
                /\ Count(calls', "recorder.start") = 0
                /\ spc' \notin {"writeMeta", "returned"}
           /\ (err = "goto" /\ spc = "thrown" /\ spc' = "idle") =>
                /\ failures' =
                      Append(failures, [folder |-> folders[idx], error |-> "goto"])
                /\ log' = Append(log, <<"Failed", folders[idx]>>)
                /\ pc' = "loop"
                /\ idx' = idx + 1 ]_vars
    /\ [](pc = "done" /\ ScanAnswered => attempted = folders)

C7_Witness ==
    /\ Len(failures) >= 1
    /\ failures[1] = [folder |-> folders[1], error |-> "goto"]
    /\ Len(attempted) = 2
    /\ spc = "returned"

\* C8: every recording.json written has business_folder equal to the name of
\* a folder of the list, index_html referring to index.html in that folder
\* and recording referring to recording.mp4 in that folder, and is written
\* only after the cleanup of a session that did not fail.
InFolder(n, file) == Append(Append(RESOURCES_ROOT.path, n), <<file>>)

C8_MetaRefersToItsFolder ==
    /\ \A f \in fs :
          f.kind = "json" =>
              \E n \in Range(folders) :
                  /\ f.meta.business_folder = n
                  /\ f.meta.index_html = InFolder(n, "index.html")
                  /\ f.meta.recording = InFolder(n, "recording.mp4")
    /\ spc = "returned" =>
          /\ err = "none"
          /\ Count(calls, "browser.close") = 1


InRegion == pc = "session" /\ spc \in {"hoverCheck", "hover"}

\* The positions, in the element list of the current section, of the
\* candidates with a box at least 10 by 10 that are visible.
PassingPositions ==
    {k \in 1..Len(site.regions[region]) :
        LET c == site.regions[region][k]
        IN  /\ c.fault = "none"
            /\ c.hasBox
            /\ c.box.width >= 10
            /\ c.box.height >= 10
            /\ c.display # "none"
            /\ c.visibility # "hidden"
            /\ c.opacity # "0"}

\* C9: in every region the targets visited are at most 5 and are a prefix of
\* the sorted list of the candidates that passed the size and visibility
\* filters.
C9_VisitedPrefixOfSorted ==
    InRegion =>
        /\ Len(hovered) <= 5
        /\ Len(hovered) <= Len(elementData)
        /\ hovered = SubSeq(elementData, 1, Len(hovered))
        /\ {elementData[k].el : k \in 1..Len(elementData)} = PassingPositions
        /\ Len(elementData) = Cardinality(PassingPositions)
        /\ \A k \in 1..Len(elementData) :
              elementData[k].box = site.regions[region][elementData[k].el].box

C9_Witness ==
    /\ InRegion
    /\ Len(hovered) = 5
    /\ Len(elementData) = 6

\* The statement of C10 on a target list.
RowOrdered(s) ==
    \A i, j \in 1..Len(s) :
        i < j =>
            /\ ~(s[j].box.y < s[i].box.y - 40)
            /\ Abs(s[i].box.y - s[j].box.y) < 40 => s[i].box.x <= s[j].box.x

\* "Within 40 px vertically" is transitive among the targets: they fall into
\* rows.
RowsSeparate(s) ==
    \A i, j, k \in 1..Len(s) :
        (Abs(s[i].box.y - s[j].box.y) <= 40 /\ Abs(s[j].box.y - s[k].box.y) <= 40)
            => Abs(s[i].box.y - s[k].box.y) <= 40

\* C10 as stated: for every set of candidate boxes the target list is sorted
\* top to bottom, same-row targets left to right.
C10_AlwaysRowOrdered == InRegion => RowOrdered(limitedElements)

\* C10 (amended): the target list is sorted top to bottom with same-row
\* targets left to right whenever the candidates that passed the filters
\* fall into rows (being within 40 px vertically is transitive among them).
C10_RowOrderedWhenRowsSeparate ==
    (InRegion /\ RowsSeparate(elementData)) =>
        RowOrdered(elementData) /\ RowOrdered(limitedElements)

C10_Witness ==
    /\ InRegion
    /\ RowsSeparate(elementData)
    /\ Len(elementData) = 6
    /\ Len(limitedElements) = 5
    /\ \E i, j \in 1..5 :
          /\ i < j
          /\ limitedElements[i].el > limitedElements[j].el
          /\ limitedElements[i].box.y = limitedElements[j].box.y

\* C11: no target that is hovered lacks a bounding box or has a box less than
\* 10 wide or less than 10 high, and none failed the computed-style check
\* (display none, visibility hidden, opacity 0, zero rendered size).
C11_HoveredPassedFilters ==
    InRegion =>
        \A k \in 1..Len(hovered) :
            LET c == site.regions[region][hovered[k].el]
            IN  /\ c.hasBox
                /\ hovered[k].box = c.box
                /\ hovered[k].box.width >= 10
                /\ hovered[k].box.height >= 10
                /\ c.display # "none"
                /\ c.visibility # "hidden"
                /\ c.opacity # "0"
                /\ c.rect.width > 0
                /\ c.rect.height > 0

C11_Witness ==
    /\ InRegion
    /\ Len(site.regions[region]) = 3
    /\ ~site.regions[region][1].hasBox
    /\ site.regions[region][2].box.width = 10
    /\ site.regions[region][3].opacity = "0"
    /\ Len(hovered) = 1
    /\ hovered[1].el = 2

\* Exact (unrounded) arithmetic on numbers, to state the claims on easing.
magnitude(x) == [x EXCEPT !.neg = FALSE]

atMost(a, b) == ~less(b, a)

\* |a - b| <= tol
within(a, b, tol) == atMost(magnitude(exactSum(a, negate(b))), tol)

\* 2t^2 for t < 0.5 and 1 - 2(1 - t)^2 otherwise, exactly.
idealEased(t) ==
    IF less(t, halve(num(1)))
    THEN exactProduct(num(2), exactProduct(t, t))
    ELSE LET u == exactSum(num(1), negate(t))
         IN  exactSum(num(1), negate(exactProduct(num(2), exactProduct(u, u))))

MotionOver == motion.steps > 0 /\ Len(trace) = motion.steps + 1

\* C12 as stated: eased(0) = 0, eased(0.5) = 0.5 and eased(1) = 1, the first
\* tick of an animation is issued at the start position and the last tick
\* exactly at the target position.
C12_LastTickExactlyAtTarget ==
    /\ eased(num(0)) = num(0)
    /\ eased(halve(num(1))) = halve(num(1))
    /\ eased(num(1)) = num(1)
    /\ Len(trace) >= 1 => trace[1].at = motion.from
    /\ MotionOver => trace[Len(trace)].at = motion.to

\* C12 (amended): the eased value of every tick (checked in the state the
\* tick is issued in) is 2t^2 for t < 0.5 and 1 - 2(1 - t)^2 otherwise up
\* to the rounding of double arithmetic (2^-53),
\* with eased(0) = 0, eased(0.5) = 0.5 and eased(1) = 1 exactly; the first
\* tick is issued at the start position; the last tick is issued at
\* start + (target - start) in double arithmetic, which is the target
\* itself when target - start is a double (whole and half pixels), and
\* within rounding of it otherwise.
C12_LastTickAtTargetUpToRounding ==
    /\ eased(num(0)) = num(0)
    /\ eased(halve(num(1))) = halve(num(1))
    /\ eased(num(1)) = num(1)
    /\ Len(trace) >= 1 =>
          within(trace[Len(trace)].eased,
                 idealEased(trace[Len(trace)].progress), twoTo(-53))
    /\ Len(trace) >= 1 => trace[1].at = motion.from
    /\ MotionOver =>
          LET last == trace[Len(trace)].at
              larger == IF less(magnitude(motion.from), magnitude(motion.to))
                        THEN magnitude(motion.to) ELSE magnitude(motion.from)
          IN  /\ last = plus(motion.from, minus(motion.to, motion.from))
              /\ minus(motion.to, motion.from)
                     = exactSum(motion.to, negate(motion.from)) => last = motion.to
              /\ within(last, motion.to, exactProduct(twoTo(-51), larger))

C12_Witness ==
    /\ MotionOver
    /\ motion.steps = 50
    /\ motion.from = num(640)
    /\ motion.to = ratio(1001, 10)
    /\ trace[1].at = num(640)
    /\ trace[26].eased = halve(num(1))
    /\ trace[51].at # motion.to

\* C13: over the ticks of an animation the eased progress never decreases,
\* and the position never moves back towards the start: the tick just issued
\* is not below any tick issued before it (every pair of ticks is compared
\* in the state the later one is issued in).
C13_EasedNeverDecreases ==
    \A j \in 1..(Len(trace) - 1) :
        LET k == Len(trace)
        IN  /\ atMost(trace[j].eased, trace[k].eased)
            /\ IF less(motion.to, motion.from)
               THEN atMost(trace[k].at, trace[j].at)
               ELSE atMost(trace[j].at, trace[k].at)

C13_Witness ==
    /\ MotionOver
    /\ motion.steps = 38
    /\ motion.from # motion.to
    /\ less(trace[1].eased, trace[2].eased)
    /\ less(trace[38].eased, trace[39].eased)

\* The local results of the answer, when it holds an array of them.
LocalItems ==
    IF toolInput.data.local_results = <<>> THEN <<>>
    ELSE toolInput.data.local_results[1].items

\* The positions of the local results without a website link and with a
\* phone number.
Leads ==
    {k \in 1..Len(LocalItems) :
        LET r == LocalItems[k]
            website == IF r.links = <<>> THEN <<>> ELSE r.links[1].website
            linkPhone == IF r.links = <<>> THEN <<>> ELSE r.links[1].phone
        IN  /\ website \in {<<>>, <<"">>}
            /\ linkPhone \notin {<<>>, <<"">>} \/ r.phone \notin {<<>>, <<"">>}}

SerpAnswered ==
    /\ toolInput.tool = "serp_tool"
    /\ toolOutput.state = "returned"
    /\ ~toolOutput.isError

\* C14: the businesses serp_tool returns are exactly the local results with
\* no website link and a phone number, in the original order, each with a
\* non-empty phone; total_filtered_results is their number; an answer
\* without a local_results array yields none.
C14_SerpFilter ==
    SerpAnswered =>
        LET out == toolOutput.results
        IN  /\ toolOutput.total_filtered_results = Len(out)
            /\ Len(out) = Cardinality(Leads)
            /\ \A j \in 1..Len(out) :
                  \E k \in Leads :
                      /\ Cardinality({n \in Leads : n < k}) = j - 1
                      /\ out[j].name = LocalItems[k].title[1]
                      /\ out[j].phone # ""
                      /\ out[j].phone \in
                            {v[1] : v \in {LocalItems[k].phone,
                                          field(LocalItems[k].links, "phone")}
                                           \ {<<>>}}
            /\ (toolInput.data.local_results = <<>>
                   \/ ~toolInput.data.local_results[1].isArray) => out = <<>>

C14_Witness ==
    /\ SerpAnswered
    /\ Len(LocalItems) = 2
    /\ field(LocalItems[1].links, "website") = <<"w">>
    /\ LocalItems[2].links = <<>>
    /\ LocalItems[2].phone = <<"q">>
    /\ toolOutput.total_filtered_results = 1
    /\ toolOutput.results[1].name = "b2"

\* C15: the request of unsplash_photo_search asks for per_page photos, and
\* for 10 when per_page is omitted.
C15_RequestsPerPage ==
    (toolInput.tool = "unsplash_photo_search" /\ toolOutput.state = "returned"
        /\ toolOutput.request.sent) =>
        toolOutput.request.params.per_page =
            toString(IF toolInput.args.per_page = <<>> THEN 10
                     ELSE toolInput.args.per_page[1])

\* The calls made after some call had returned, that have returned.
WarmCalls ==
    {c \in 1..Len(listCalls) :
        listCalls[c].warm /\ listCalls[c].pc = "returned"}

\* C16: every call of listWebsiteTemplateFilenames made after a call has
\* returned reads nothing, and all such calls return one and the same array.
C16_WarmCallsReturnOneArray ==
    \A c, d \in WarmCalls :
        /\ ~listCalls[c].read
        /\ listCalls[c].result = listCalls[d].result

\* The positions <<i, j>> of the pitches of the document.
Positions ==
    {q \in (1..Len(doc.pitch_list)) \X (1..MaxPitches) :
        q[2] <= Len(doc.pitch_list[q[1]].pitches)}

\* C17: when assignTemplateNamesToCurrentPitchList has returned, every pitch
\* has a template_name that is one of the listed filenames and is the entry
\* of its pitch_id in idToTemplate; and an entry of idToTemplate is only ever
\* set to a listed filename that an assignment of the latest answer names
\* for that pitch_id.
C17_TemplateNamesFromValidAssignments ==
    /\ [](apc = "returned" =>
            \A q \in Positions :
                LET name == doc.pitch_list[q[1]].pitches[q[2]].template_name
                    id == pitchId(q[1] - 1, q[2] - 1)
                IN  /\ name # <<>>
                    /\ name[1] \in Range(templateFilenames)
                    /\ id \in DOMAIN idToTemplate
                    /\ name[1] = idToTemplate[id])
    /\ [][\A id \in DOMAIN idToTemplate' :
             (id \notin DOMAIN idToTemplate
                 \/ idToTemplate'[id] # idToTemplate[id]) =>
                 /\ idToTemplate'[id] \in Range(templateFilenames)
                 /\ \E k \in 1..Len(llmResult'.assignments) :
                       /\ trimmed(llmResult'.assignments[k].pitch_id) = id
                       /\ trimmed(llmResult'.assignments[k].template_name)
                             = idToTemplate'[id]]_vars

C17_Witness ==
    /\ apc = "returned"
    /\ Len(doc.pitch_list) = 1
    /\ Len(doc.pitch_list[1].pitches) = 2
    /\ doc.pitch_list[1].pitches[1].template_name = << <<"a">> >>
    /\ doc.pitch_list[1].pitches[2].template_name = << <<"a", "1">> >>
    /\ effects = <<"prompt", "retryPrompt", "materialize", "writeStaging">>
    /\ \E k \in 1..Len(llmResult.assignments) :
          llmResult.assignments[k].template_name = <<"z">>

Interactions == {"mouse.move", "scroll", "click"}

\* The state of the session: 0 Idle, 1 Launched, 2 PageReady (the overlay is
\* injected), 3 CaptureStarted, 4 CaptureStopped, 5 Closed.
Phase ==
    IF "browser.close" \in Range(calls) THEN 5
    ELSE IF "recorder.stop" \in Range(calls) THEN 4
    ELSE IF "recorder.start" \in Range(calls) /\ started THEN 3
    ELSE IF spc = "start" \/ "recorder.start" \in Range(calls) THEN 2
    ELSE IF "launch" \in Range(calls) THEN 1
    ELSE 0

\* The calls the step appends to the log of the session.
Issued == {calls'[k] : k \in (Len(calls) + 1)..Len(calls')}

\* C18: the state of a session never moves backwards; goto and the overlay
\* injection are issued after launch and before recorder.start; a scroll,
\* pointer move or click is issued only while capture is started and not
\* stopped, and recorder.stop only then; recorder.stop precedes page.close
\* and page.close precedes browser.close.
C18_SessionStatesInOrder ==
    /\ [][(pc = "session" /\ pc' = "session") => Phase' >= Phase]_vars
    /\ [][/\ Issued \cap {"goto", "inject"} # {} =>
                 Phase = 1 /\ Phase' \in {1, 2}
          /\ Issued \cap Interactions # {} => Phase = 3 /\ Phase' = 3
          /\ "recorder.stop" \in Issued => Phase = 3 /\ Phase' = 4
          /\ "page.close" \in Issued => Phase' < 5
          /\ "browser.close" \in Issued =>
                 Phase < 5 /\ "page.close" \in Range(calls)]_vars
    /\ [](\A k \in 1..Len(calls) : \A m \in 1..Len(calls) :
            /\ (calls[k] = "page.close" /\ calls[m] = "recorder.stop") => m < k
            /\ (calls[k] = "browser.close" /\ calls[m] = "page.close") => m < k
            /\ (calls[k] \in Interactions
                   /\ calls[m] \in {"goto", "inject", "recorder.start"}) => m < k
            /\ (calls[k] \in Interactions
                   /\ calls[m] \in {"recorder.stop", "page.close",
                                     "browser.close"}) => k < m)

C18_Witness ==
    /\ spc = "returned"
    /\ Phase = 5
    /\ idx = 2
    /\ \E k \in 1..Len(calls) :
          /\ calls[k] = "recorder.start"
          /\ SubSeq(calls, k + 1, Len(calls)) =
                <<"mouse.move", "scroll", "mouse.move", "mouse.move", "scroll",
                  "mouse.move", "click", "scroll", "recorder.stop",
                  "page.close", "browser.close", "writeFile">>

CleanupSteps == {"recorder.stop", "page.close", "browser.close"}

\* The finally block was reached and left.
CleanedUp ==
    \/ spc \in {"writeMeta", "returned"}
    \/ spc = "thrown" /\ err \notin {"prepare", "launch", "newPage",
                                      "newRecorder", "mkdirBusiness"}

\* C19: whichever of recorder.stop, page.close and browser.close throw,
\* page.close is attempted once recorder.stop is over and browser.close once
\* page.close is over; none of the three is the exception of the session or
\* the error of a failed folder, and with no exception in flight the session
\* goes on to write recording.json.
C19_CleanupStepsIndependent ==
    /\ [](/\ (pc = "session" /\ spc = "browserClose") =>
                Count(calls, "page.close") = 1
          /\ (pc = "session" /\ CleanedUp) =>
                /\ Count(calls, "page.close") = 1
                /\ Count(calls, "browser.close") = 1
                /\ started => Count(calls, "recorder.stop") = 1
          /\ err \notin CleanupSteps
          /\ \A k \in 1..Len(failures) : failures[k].error \notin CleanupSteps)
    /\ [][(pc = "session" /\ spc \in {"stop", "pageClose", "browserClose"}
              /\ spc' # spc) =>
             /\ err' = err
             /\ spc = "stop" => spc' = "pageClose"
             /\ spc = "pageClose" => spc' = "browserClose"
             /\ (spc = "browserClose" /\ err = "none") => spc' = "writeMeta"]_vars

C19_Witness ==
    /\ pc = "loop"
    /\ idx = 2
    /\ swallowed = CleanupSteps
    /\ failures = <<>>
    /\ <<"Saved", <<"a">>>> \in Range(log)
    /\ SubSeq(calls, Len(calls) - 3, Len(calls)) =
          <<"recorder.stop", "page.close", "browser.close", "writeFile">>

\* C20: an exception of a hover or of the nav click (the move, the click or
\* the scroll to the anchor) is caught there: it is never the exception of
\* the session nor the error of a failed folder; the hover loop goes on to
\* the next target and ends only after the last one or on a closed page, the
\* loop over the sections likewise; the nav click is followed by the finally
\* block, which stops the capture and closes the page and the browser.
C20_SubStepFailuresContained ==
    /\ [](/\ err \notin {"hover", "nav"}
          /\ \A k \in 1..Len(failures) : failures[k].error \notin {"hover", "nav"}
          /\ (pc = "session" /\ CleanedUp /\ swallowed \cap {"hover", "nav"} # {})
                => /\ Count(calls, "recorder.stop") = 1
                   /\ Count(calls, "page.close") = 1
                   /\ Count(calls, "browser.close") = 1)
    /\ [][/\ (pc = "session" /\ spc = "hover" /\ spc' # spc) =>
                /\ spc' = "hoverCheck"
                /\ hoverIdx' = hoverIdx + 1
                /\ err' = err
          /\ (pc = "session" /\ spc = "hoverCheck" /\ spc' = "regionCheck") =>
                hoverIdx > Len(limitedElements) \/ pageGone'
          /\ (pc = "session" /\ spc = "regionCheck" /\ spc' = "topCheck") =>
                region > nSections \/ pageGone'
          /\ (pc = "session" /\ spc = "navClick" /\ spc' # spc) =>
                spc' = "stop" /\ err' = err]_vars

C20_Witness ==
    /\ pc = "loop"
    /\ idx = 2
    /\ swallowed = {"hover", "nav"}
    /\ Len(site.regions) = 1
    /\ currentX = centerX(PoolSeq[7].box)
    /\ currentY = centerY(PoolSeq[7].box)
    /\ Count(calls, "click") = 1
    /\ failures = <<>>
    /\ <<"Saved", <<"a">>>> \in Range(log)
    /\ SubSeq(calls, Len(calls) - 3, Len(calls)) =
          <<"recorder.stop", "page.close", "browser.close", "writeFile">>

(***************************************************************************)
(* The smooth motions of a session and their failure boundaries.           *)
(***************************************************************************)
\* C21: no failed tick of a smooth motion (the scroll to a section, the
\* scroll back to the top, the scroll to the anchor, a cursor animation) is
\* the exception of the session or the error of a failed folder.
C21_MotionFailuresContained ==
    /\ err \notin {"scrollTop", "hover", "nav"}
    /\ \A k \in 1..Len(failures) :
          failures[k].error \notin {"scrollTop", "hover", "nav"}

\* C22: once a closed check of the session has answered true, no mouse
\* move, scroll or click is issued any more: the hover loop is left for the
\* loop over the sections, that one for the check before the scroll to the
\* top, and that one for the finally block, which still stops the capture
\* and closes the page and the browser.
C22_ClosedPageEndsInteraction ==
    /\ [][(pc = "session" /\ pageGone) =>
             /\ Issued \cap Interactions = {}
             /\ pageGone'
             /\ spc = "hoverCheck" => spc' = "regionCheck"
             /\ spc = "regionCheck" => spc' = "topCheck"
             /\ spc = "topCheck" => spc' = "stop"]_vars
    /\ []((pc = "session" /\ pageGone /\ CleanedUp) =>
             /\ Count(calls, "recorder.stop") = 1
             /\ Count(calls, "page.close") = 1
             /\ Count(calls, "browser.close") = 1)

\* The page was closed after the first of two hovers of the only section: a
\* target, the scroll to the top and the nav click (three links) were left
\* out, and the session returned.
C22_Witness ==
    /\ spc = "returned"
    /\ pageGone
    /\ Len(site.regions) = 1
    /\ Len(site.regions[1]) = 2
    /\ selectNavLinks(site.nav).length >= 3
    /\ \E k \in 1..Len(calls) :
          /\ calls[k] = "recorder.start"
          /\ SubSeq(calls, k + 1, Len(calls)) =
                <<"mouse.move", "scroll", "mouse.move", "recorder.stop",
                  "page.close", "browser.close", "writeFile">>

\* C23: when the elements of a section were collected, an element is a
\* target exactly when no call on it threw and it passes the filters, whatever
\* the other elements of the section did; the planning went on to the hover
\* loop with no exception in flight.
C23_ElementFailureExcludesElement ==
    [][(pc = "session" /\ spc = "plan" /\ spc' = "hoverCheck") =>
          LET elements == site.regions[region]
          IN  /\ \A k \in 1..Len(elements) :
                    (\E t \in 1..Len(elementData') : elementData'[t].el = k)
                       <=> /\ elements[k].fault = "none"
                           /\ passesFilters([elements[k] EXCEPT !.fault = "none"])
              /\ \A t, u \in 1..Len(elementData') :
                    elementData'[t].el = elementData'[u].el => t = u
              /\ limitedElements' = slice(elementData')
              /\ err' = "none"]_vars

\* A section of three elements: boundingBox() throws on the first and the
\* visibility check on the second; the third is the only target, and it was
\* hovered.
C23_Witness ==
    /\ InRegion
    /\ Len(site.regions[region]) = 3
    /\ site.regions[region][1].fault = "boundingBox"
    /\ site.regions[region][2].fault = "evaluate"
    /\ Len(elementData) = 1
    /\ elementData[1].el = 3
    /\ Len(hovered) = 1
    /\ err = "none"

(***************************************************************************)
(* The click on a link of the navigation bar.                              *)
(***************************************************************************)
\* The first selector that matches at least three links, 0 when none does.
firstSelectorWithThree ==
    IF \A k \in 1..3 : site.nav[k] < 3 THEN 0
    ELSE CHOOSE k \in 1..3 :
            site.nav[k] >= 3 /\ \A j \in 1..(k - 1) : site.nav[j] < 3

\* The nav block of lines 274-326 was passed.
NavPassed ==
    pc = "session" /\ navLinks.selector # 0 /\ spc # "navClick"

\* C25 as stated, its last part: once the links were queried and there are
\* at least three of them, the third one was moved to and clicked.
C25_ThirdLinkAlwaysClicked ==
    (NavPassed /\ navLinks.length >= 3) =>
        /\ Count(calls, "click") = 1
        /\ navLinks.clicked = 3

\* C25: a session clicks at most once; what it clicks is the third link of
\* the first of the three selectors that matches at least three links, after
\* the cursor was moved to it; when no selector matches three links nothing
\* is clicked; and when the third link has a box and no call of the nav
\* block throws, it is moved to and clicked.
C25_ThirdLinkOfFirstSelector ==
    /\ [](/\ Count(calls, "click") <= 1
          /\ firstSelectorWithThree = 0 => Count(calls, "click") = 0
          /\ (pc = "session" /\ navLinks.selector # 0) =>
                /\ navLinks.selector =
                      (IF firstSelectorWithThree = 0 THEN 3
                       ELSE firstSelectorWithThree)
                /\ navLinks.length = site.nav[navLinks.selector]
          /\ (pc = "session" /\ Count(calls, "click") = 1) =>
                /\ navLinks.clicked = 3
                /\ navLinks.length >= 3
                /\ navLinks.selector = firstSelectorWithThree
                /\ \E k \in 2..Len(calls) :
                      calls[k] = "click" /\ calls[k - 1] = "mouse.move"
          /\ (NavPassed /\ navLinks.length >= 3 /\ site.linkBox
                 /\ "nav" \notin swallowed) =>
                /\ Count(calls, "click") = 1
                /\ navLinks.clicked = 3)
    /\ [][~InSession("navClick") => Count(calls', "click") = Count(calls, "click")
                                      \/ calls' = <<>>]_vars

\* Three links under the second selector, none under the first: the third
\* link of the second list was moved to and clicked.
C25_Witness ==
    /\ NavPassed
    /\ site.nav = <<0, 3, 4>>
    /\ navLinks = [selector |-> 2, length |-> 3, clicked |-> 3]
    /\ swallowed = {}
    /\ Count(calls, "click") = 1

(***************************************************************************)
(* The sessions of a batch, one after the other.                           *)
(***************************************************************************)
\* The call for the folder has returned or thrown, as the log tells.
Ended(folder) ==
    <<"Saved", folder>> \in Range(log) \/ <<"Failed", folder>> \in Range(log)

\* The calls of recordOneBusinessFolder that have begun and not ended.
InFlight == {k \in 1..Len(attempted) : ~Ended(attempted[k])}

\* C26: at most one call of recordOneBusinessFolder is in flight, the one
\* for folders[idx]; a call begins only when every call before it has
\* returned or thrown and nothing of a session is in progress; a step of a
\* session (a call on the browser, a file or directory written) is a step of
\* the one call in flight; and no profile directory exists for a folder
\* whose call has not begun.
C26_SessionsSequential ==
    /\ [](/\ Cardinality(InFlight) <= 1
          /\ pc = "session" <=> InFlight # {}
          /\ pc = "session" =>
                /\ InFlight = {Len(attempted)}
                /\ attempted[Len(attempted)] = folders[idx]
          /\ pc # "session" => spc = "idle"
          /\ Len(attempted) <= Len(folders)
          /\ \A k \in 1..Len(folders) :
                Dir(userDataDirUrl(folders[k])) \in fs => k <= Len(attempted))
    /\ [][/\ attempted' # attempted =>
                /\ InFlight = {}
                /\ spc = "idle"
                /\ attempted' = Append(attempted, folders[idx])
                /\ Len(attempted) = idx - 1
          /\ (calls' # calls \/ fs' # fs) =>
                pc = "session" \/ (pc = "loop" /\ calls' = <<>> /\ fs' = fs)
          /\ (pc = "session" /\ pc' # "session") =>
                spc \in {"returned", "thrown"}]_vars

\* The second folder's session has launched its browser after the first
\* one failed in the scroll to the top.
C26_Witness ==
    /\ pc = "session"
    /\ Len(attempted) = 2
    /\ calls = <<"launch">>
    /\ failures = <<[folder |-> <<"a">>, error |-> "scrollTop"]>>
    /\ Dir(userDataDirUrl(<<"a", "1">>)) \in fs

(***************************************************************************)
(* What "Saved" tells about the session.                                   *)
(***************************************************************************)
\* The last line logged reports the folder of the last session as saved;
\* the variables of that session are still those it ended with.
JustSaved ==
    /\ pc \in {"loop", "done"}
    /\ Len(log) > 0
    /\ log[Len(log)][1] = "Saved"

\* C29 as stated: the folder is reported as saved only if recorder.start()
\* and recorder.stop() both completed without an exception.
C29_SavedOnlyAfterCleanStop ==
    JustSaved =>
        /\ StartCompleted
        /\ Count(calls, "recorder.stop") = 1
        /\ "recorder.stop" \notin swallowed

\* C29: the folder is reported as saved, and is not among the failures,
\* only if in its session recorder.start() completed without an exception,
\* recorder.stop() was called once, after the last interaction, and no
\* exception left the try block.
C29_SavedOnlyAfterStartAndStop ==
    JustSaved =>
        /\ StartCompleted
        /\ started
        /\ err = "none"
        /\ Count(calls, "recorder.stop") = 1
        /\ \A k, m \in 1..Len(calls) :
              (calls[k] = "recorder.stop" /\ calls[m] \in Interactions) => m < k
        /\ \A k \in 1..Len(failures) :
              failures[k].folder # log[Len(log)][2]

\* The first folder was reported as saved although recorder.stop() threw.
C29_Witness ==
    /\ JustSaved
    /\ log[Len(log)][2] = <<"a">>
    /\ "recorder.stop" \in swallowed
    /\ failures = <<>>

(***************************************************************************)
(* The cursor, tick by tick.                                               *)
(***************************************************************************)
\* C24: a pointer move is followed by the call of window.updateCursor with
\* the same coordinates before anything else is done: after a move the
\* session is about to call the overlay, the call it makes carries the
\* coordinates of the move, and a move is made only when the move before it
\* has been followed by that call.
C24_MoveAndOverlayInLockstep ==
    /\ [](InSession("tickUpdate") =>
             /\ Len(trace) = 1
             /\ trace[1].call = "mouse.move"
             /\ trace[1].at = motion.at)
    /\ [][/\ (InSession("tickMove") /\ Len(trace') = 1) =>
                /\ spc' = "tickUpdate"
                /\ Len(trace) = 2
                /\ trace[2].call = "updateCursor"
                /\ trace[2].at = trace[1].at
          /\ (InSession("tickUpdate") /\ spc' # spc) =>
                /\ Len(trace') = 2
                /\ trace'[1] = trace[1]
                /\ trace'[2].call = "updateCursor"
                /\ trace'[2].at = trace[1].at]_vars

\* After the hover to the target centred at (100.1, 210.5), six ticks of the
\* move to the nav link have each moved the pointer and told the overlay the
\* same coordinates, away from the tracked position.
C24_Witness ==
    /\ InSession("tickMove")
    /\ motion.kind = "nav"
    /\ tick = 6
    /\ Len(trace) = 2
    /\ trace[2].at = trace[1].at
    /\ trace[1].at # <<currentX, currentY>>
    /\ <<currentX, currentY>> = centre(HoverPool[3])

\* The square of the way from the tracked position to the target of the
\* animation in flight, exactly.
exactSquares ==
    LET dx == exactSum(motion.to[1], negate(currentX))
        dy == exactSum(motion.to[2], negate(currentY))
    IN  exactSum(exactProduct(dx, dx), exactProduct(dy, dy))

\* C27: a hover has from 13 to 25 steps, hence from 14 to 26 ticks, and their
\* number is Math.ceil(duration / 16) for the duration distance / 2 kept
\* within 200 and 400: 13 steps up to a distance of 416, 25 steps beyond 768,
\* and between them the n steps with 32 (n - 1) < distance <= 32 n; the
\* tracked position is set after the tick of number steps only.
C27_HoverTicksFrom14To26 ==
    /\ [](motion.kind = "hover" =>
             LET n == motion.steps
             IN  /\ n \in 13..25
                 /\ tick \in 0..n
                 /\ n > 13 =>
                       less(num((32 * (n - 1)) * (32 * (n - 1))), exactSquares)
                 /\ n < 25 =>
                       atMost(exactSquares, num((32 * n) * (32 * n))))
    /\ [][<<currentX', currentY'>> # <<currentX, currentY>> =>
             tick = motion.steps]_vars

\* The last tick, the 26th, of a hover over a distance of 1000.
C27_Witness ==
    /\ InSession("tickUpdate")
    /\ motion.kind = "hover"
    /\ motion.steps = 25
    /\ tick = 25
    /\ exactSquares = num(1000000)

\* A hover was completed by this step.
HoverCompleted ==
    /\ InSession("tickUpdate")
    /\ motion.kind = "hover"
    /\ tick = motion.steps
    /\ trace'[2].ok

\* C28 as stated: the last pointer move of a hover that completes is at the
\* centre of the target.
C28_HoverEndsAtCentre ==
    [][HoverCompleted => trace[1].at = centre(limitedElements[hoverIdx].box)]_vars

\* C28: the first pointer move of a hover is at the tracked position; the
\* last one of a hover that completes is at currentX + (centerX - currentX)
\* and currentY + (centerY - currentY) in double arithmetic, within 2^-40 of
\* the centre of the target, and at the centre when the two differences are
\* exact; the tracked position is then the centre, and nothing else changes
\* the tracked position.
C28_HoverFromTrackedToCentre ==
    [][/\ (InSession("tickMove") /\ motion.kind = "hover" /\ tick = 0
              /\ spc' = "tickUpdate") =>
             trace'[1].at = <<currentX, currentY>>
       /\ HoverCompleted =>
             LET to == centre(limitedElements[hoverIdx].box)
                 exact == /\ minus(to[1], currentX) =
                                exactSum(to[1], negate(currentX))
                          /\ minus(to[2], currentY) =
                                exactSum(to[2], negate(currentY))
             IN  /\ <<currentX', currentY'>> = to
                 /\ trace[1].at = <<plus(currentX, minus(to[1], currentX)),
                                    plus(currentY, minus(to[2], currentY))>>
                 /\ within(trace[1].at[1], to[1], twoTo(-40))
                 /\ within(trace[1].at[2], to[2], twoTo(-40))
                 /\ exact => trace[1].at = to
       /\ <<currentX', currentY'>> # <<currentX, currentY>> => HoverCompleted]_vars

\* The hover from (640, 100) to the target centred at (100.1, 210.5) is
\* completed: the tracked position is the centre and the last pointer move
\* was not exactly there.
C28_Witness ==
    /\ InSession("hoverCheck")
    /\ hoverIdx = 2
    /\ <<currentX, currentY>> = centre(HoverPool[3])
    /\ trace[2].ok
    /\ trace[1].at # <<currentX, currentY>>
    /\ within(trace[1].at[1], currentX, twoTo(-40))

\* C30: when the first tick of an animation is about to move the pointer,
\* the tracked position is where the last pointer move left the pointer.
C30_TrackedIsLastMove ==
    (InSession("tickMove") /\ tick = 0) => trace[1].at = <<currentX, currentY>>

(***************************************************************************)
(* gptCall5.                                                               *)
(***************************************************************************)
\* C31: gptCall5 returns: it makes at most maxRetries + 1 requests, a
\* request after the first only after the one before it threw and after a
\* delay of 2^retryCount seconds, it returns the empty string when its last
\* request threw, and whenever no request is pending every timer set has
\* been cleared by a call of clearTimeout.
C31_GptCallReturns ==
    /\ [](/\ gpt.requests <= gpt.maxRetries + 1
          /\ gpt.retryCount <= gpt.maxRetries
          /\ gpt.requests = gpt.retryCount + (IF gpt.pc = "call" THEN 0 ELSE 1)
          /\ gpt.pc \in {"call", "waiting"} => gpt.thrown = gpt.requests
          /\ gpt.pc = "pending" => gpt.thrown = gpt.requests - 1
          /\ gpt.pc = "returned" =>
                gpt.thrown \in {gpt.requests - 1, gpt.requests}
          /\ gpt.delays = [k \in 1..Len(gpt.delays) |-> (2 ^ (k - 1)) * 1000]
          /\ Len(gpt.delays) =
                gpt.retryCount + (IF gpt.pc = "waiting" THEN 1 ELSE 0)
          /\ gpt.pc # "pending" =>
                (gpt.timer # "armed" /\ gpt.cleared = gpt.requests)
          /\ (gpt.pc = "returned" /\ gpt.thrown = gpt.requests) =>
                (gpt.result = "" /\ gpt.requests = gpt.maxRetries + 1)
          /\ gpt.pc = "returned" => gpt.result \in {"", "object", "null"})
    /\ <>(gpt.pc = "returned")

\* With the default maxRetries = 3, four requests threw: the call waited 1,
\* 2 and 4 seconds, cleared four timers of which one had fired, and returned
\* the empty string.
C31_Witness ==
    /\ gpt.pc = "returned"
    /\ gpt.maxRetries = 3
    /\ gpt.requests = 4
    /\ gpt.thrown = 4
    /\ gpt.delays = <<1000, 2000, 4000>>
    /\ gpt.cleared = 4
    /\ gpt.aborted = 1
    /\ gpt.result = ""

(***************************************************************************)
(* Prompts and effects of the template assignment.                         *)
(***************************************************************************)
\* C32: at most the first prompt and, after it, one retry prompt are sent,
\* and the answer to the retry is about the pitches still unassigned; when a
\* pitch has no valid assignment after the answers are merged the function
\* throws, and no resource directory is made, no index.html written and
\* current_pitch_list.json not rewritten in a run in which a pitch is left
\* without a valid assignment; nothing happens after the throw.
C32_ThrowsBeforeAnyEffect ==
    /\ [](/\ Count(effects, "prompt") <= 1
          /\ Count(effects, "retryPrompt") <= 1
          /\ Count(effects, "retryPrompt") = 1 =>
                (effects[1] = "prompt" /\ effects[2] = "retryPrompt")
          /\ missing(idToTemplate, doc) # {} =>
                /\ resources = <<>>
                /\ usedResourceDirs = {}
                /\ Count(effects, "materialize") = 0
                /\ Count(effects, "writeStaging") = 0
                /\ apc \notin {"assigned", "materializing", "materialized",
                               "returned"})
    /\ [][/\ apc # "threw"
          /\ (apc = "merged" /\ missing(idToTemplate, doc) # {}) =>
                apc' = "threw"
          /\ apc = "retrying" =>
                \A k \in 1..Len(llmResult'.assignments) :
                    trimmed(llmResult'.assignments[k].pitch_id)
                        \in missing(idToTemplate, doc) \cup {<<>>}]_vars

\* Of two pitches one was assigned a template by the first answer and the
\* other by neither answer: the call has thrown after two prompts.
C32_Witness ==
    /\ apc = "threw"
    /\ effects = <<"prompt", "retryPrompt">>
    /\ Cardinality(missing(idToTemplate, doc)) = 1
    /\ Cardinality(DOMAIN idToTemplate) = 1
    /\ resources = <<>>

(***************************************************************************)
(* Resource directories.                                                   *)
(***************************************************************************)
\* C33: within one run, the index.html files of two different pitches are
\* written to different resource directories.
C33_DistinctResourceDirs ==
    \A x, y \in 1..Len(written) :
        written[x].pitch_id # written[y].pitch_id =>
            written[x].dir # written[y].dir

====
